---- MODULE Spec2Model ----
(***************************************************************************)
(* MeshGenerator (src/Util/MeshGenerator.cpp) as a state machine, with the  *)
(* geometry writer of StdSceneWriter (src/Util/StdSceneWriter.cpp).        *)
(*                                                                         *)
(* State: the generator's configuration members, the lazily created        *)
(* MeshFilter, and the last call made with its result.  One action per     *)
(* public member function of the generator, and one for writeGeometry.     *)
(*                                                                         *)
(* Conventions                                                             *)
(*  - index arrays hold the 0-based indices the C++ code stores; element   *)
(*    k of a C++ array is element k+1 of the TLA+ sequence;                *)
(*  - a triangle is a triple of vertex indices (three consecutive entries  *)
(*    of SgMesh::triangleVertices);                                        *)
(*  - a vertex is kept in the closed form the code evaluates, see Point,   *)
(*    Polar, TorusPoint and Swept below;                                   *)
(*  - angles are counted in quarter turns (a stands for the double a*PI/2) *)
(***************************************************************************)
EXTENDS Integers, Sequences, FiniteSets

VARIABLES
    divisionNumber_,              \* int MeshGenerator::divisionNumber_
    isNormalGenerationEnabled_,   \* bool
    isBoundingBoxUpdateEnabled_,  \* bool
    meshFilter,                   \* TRUE once "new MeshFilter" has run
    call,                         \* the last member function called, with its arguments
    result,                       \* what that call returned (a mesh, a line set, an
                                  \* archive, Null or NoValue), or Fault
    repeated                      \* TRUE when that call repeated the call before it

vars == <<divisionNumber_, isNormalGenerationEnabled_, isBoundingBoxUpdateEnabled_,
          meshFilter, call, result, repeated>>

(***************************************************************************)
(* Bounds of the model and program constants                               *)
(***************************************************************************)
MaxDiv == 5

defaultDivisionNumber == 20

\* what a call hands back when it is not a mesh
Null == [null |-> "nullptr"]
NoValue == [null |-> "void"]

\* arguments handed to setDivisionNumber
DivisionArgs == (-1 .. MaxDiv)

\* radii, heights
Dims == {-1, 0, 2}

\* box sizes
BoxSizes == {<<2, 2, 2>>, <<0, 0, 0>>, <<-1, 2, 2>>, <<2, -1, 2>>, <<2, 2, -1>>}

(***************************************************************************)
(* Vertices and meshes                                                     *)
(***************************************************************************)
\* the point (x2/2, y2/2, z2/2): coordinates are kept doubled so that the halves
\* the code takes (size * 0.5, height / 2.0) stay integers
Point(x2, y2, z2) == [form |-> "point", x2 |-> x2, y2 |-> y2, z2 |-> z2]

\* the point (r sin(tv) cos(th), r cos(tv) + y2/2, r sin(tv) sin(th)) with
\* tv = tvn * PI / tvd and th = thn * 2 PI / thd
Polar(r, tvn, tvd, thn, thd, y2) ==
    [form |-> "polar", r |-> r, tv |-> <<tvn, tvd>>, th |-> <<thn, thd>>, y2 |-> y2]

\* the point (r cos(angle), y2/2, r sin(angle)) with angle = i * 2 PI / n
Ring(r, i, n, y2) == [form |-> "ring", r |-> r, angle |-> <<i, n>>, y2 |-> y2]

\* new SgMesh; polygons lists the index polygons that were handed to the
\* Triangulator while the mesh was filled, steps the operations applied after that
NewMesh ==
    [vertices |-> <<>>, triangles |-> <<>>,
     normals |-> <<>>, normalIndices |-> <<>>,
     hasTexCoords |-> FALSE, texCoords |-> <<>>, texCoordIndices |-> <<>>,
     primitive |-> <<"MESH">>,
     polygons |-> <<>>,
     steps |-> <<>>]

this ==
    [divisionNumber_ |-> divisionNumber_,
     isNormalGenerationEnabled_ |-> isNormalGenerationEnabled_,
     isBoundingBoxUpdateEnabled_ |-> isBoundingBoxUpdateEnabled_]

\* if(isBoundingBoxUpdateEnabled_){ mesh->updateBoundingBox(); }
updateBoundingBox(self, mesh) ==
    IF self.isBoundingBoxUpdateEnabled_
    THEN [mesh EXCEPT !.steps = Append(@, <<"updateBoundingBox">>)]
    ELSE mesh

\* MeshFilter::generateNormals(mesh, creaseAngle): the Normal Generator, which adds
\* the normal arrays in place; the model records the invocation and its crease angle
\* (in quarter turns)
MeshFilter_generateNormals(mesh, creaseAngle) ==
    [mesh EXCEPT !.steps = Append(@, <<"generateNormals", creaseAngle>>)]

\* MeshGenerator::generateNormals
generateNormals_first(self, mesh, creaseAngle) ==
    IF self.isNormalGenerationEnabled_
    THEN [mesh EXCEPT !.steps = << <<"generateNormals", creaseAngle>> >> \o @]
    ELSE mesh

generateNormals_always(self, mesh, creaseAngle) == MeshFilter_generateNormals(mesh, creaseAngle)

generateNormals(self, mesh, creaseAngle) ==
    IF self.isNormalGenerationEnabled_
    THEN MeshFilter_generateNormals(mesh, creaseAngle)
    ELSE mesh

\* TRUE when the Normal Generator ran on the mesh (so that the MeshFilter exists)
UsedMeshFilter(mesh) ==
    /\ mesh # Null
    /\ "steps" \in DOMAIN mesh
    /\ \E k \in 1 .. Len(mesh.steps) : mesh.steps[k][1] = "generateNormals"

\* concatenation of f[1] \o ... \o f[n]
RECURSIVE Concat(_, _)
Concat(f, n) == IF n = 0 THEN <<>> ELSE Concat(f, n - 1) \o f[n]

(***************************************************************************)
(* Texture coordinates of the sphere, the cylinder and the cone            *)
(*                                                                         *)
(* A texture point is kept in closed form: ST(sn, sd, tn, td) is the point *)
(* (sn / sd, tn / td), DiscPoint(k, n) the point                           *)
(* (0.5 + 0.5 cos(a), 0.5 + 0.5 sin(a)) with a = k * 2 PI / n, and NaNPoint *)
(* a point with a NaN coordinate.  Within one builder all ST points have   *)
(* the same denominators, and a disc point that lies on an ST point is     *)
(* written as that ST point, so that two points are approximately equal    *)
(* (Eigen's isApprox, relative precision 1e-5) exactly when their closed   *)
(* forms are equal, NaN points excepted.  Longitudes are those of vertices *)
(* with a radius > 0.                                                      *)
(***************************************************************************)
ST(sn, sd, tn, td) == [form |-> "st", s |-> <<sn, sd>>, t |-> <<tn, td>>]

NaNPoint(sn, sd) == [form |-> "nan", s |-> <<sn, sd>>]

\* (0.5 + 0.5 cos(a), 0.5 + 0.5 sin(a)), a = k * 2 PI / n; sd is the denominator the
\* builder uses for s
DiscPoint(k, n, sd) ==
    IF 4 * k = n THEN ST(sd \div 2, sd, 1, 1)
    ELSE IF 4 * k = 3 * n THEN ST(sd \div 2, sd, 0, 1)
    ELSE [form |-> "disc", angle |-> <<k, n>>]

\* texCoords[i].isApprox(point)
isApprox(a, b) == a.form # "nan" /\ b.form # "nan" /\ a = b

\* static int findTexCoordPoint(texCoords, point): 0-based position, or -1
findTexCoordPoint(texCoords, point) ==
    LET found == IF point.form = "nan" THEN {}
                 ELSE {i \in 1 .. Len(texCoords) : isApprox(texCoords[i], point)}
    IN IF found = {} THEN -1
       ELSE (CHOOSE i \in found : \A k \in found : i <= k) - 1

\* k = findTexCoordPoint(...); if(k >= 0) push k; else push the point and texIndex++
PushTexPoint_alwaysNext(acc, point) ==
    [acc EXCEPT !.texCoordIndices = Append(@, acc.texIndex), !.texIndex = @ + 1]

PushTexPoint(acc, point) ==
    LET k == findTexCoordPoint(acc.texCoords, point)
    IN IF k >= 0
       THEN [acc EXCEPT !.texCoordIndices = Append(@, k)]
       ELSE [acc EXCEPT !.texCoords = Append(@, point),
                        !.texCoordIndices = Append(@, acc.texIndex),
                        !.texIndex = @ + 1]

\* one pass of the loop body: corner c is either a texture point to look up or the
\* fixed index 0 of the centre point
PushCorner_skipCenter(acc, corner) ==
    IF corner.isCenter THEN acc ELSE PushTexPoint(acc, corner.point)

PushCorner(acc, corner) ==
    IF corner.isCenter
    THEN [acc EXCEPT !.texCoordIndices = Append(@, 0)]
    ELSE PushTexPoint(acc, corner.point)

\* the loop over the triangle corners lo .. hi, in order, starting from acc.  The
\* range is halved and the first half is evaluated before the second is entered (the
\* test on texIndex, which is never negative, does that), so that the evaluation
\* stays shallow.
RECURSIVE BuildTexCoords(_, _, _, _)
BuildTexCoords(corners, lo, hi, acc) ==
    IF lo > hi THEN acc
    ELSE IF lo = hi THEN PushCorner(acc, corners[lo])
    ELSE LET mid == (lo + hi) \div 2
             firstHalf == BuildTexCoords(corners, lo, mid, acc)
         IN IF firstHalf.texIndex < 0 THEN firstHalf
            ELSE BuildTexCoords(corners, mid + 1, hi, firstHalf)

\* the corner list of a mesh from the corners of each triangle
CornersOf(mesh, triangleCorners) ==
    [c \in 1 .. 3 * Len(mesh.triangles) |->
        triangleCorners[1 + ((c - 1) \div 3)][1 + ((c - 1) % 3)]]

WithTexCoords(mesh, acc) ==
    [mesh EXCEPT !.hasTexCoords = TRUE,
                 !.texCoords = acc.texCoords,
                 !.texCoordIndices = acc.texCoordIndices,
                 !.steps = Append(@, <<"texCoords">>)]

\* point[1] (the y coordinate), doubled
VertexY2(v) == v.y2

\* point[0] == 0.0 && point[2] == 0.0
OnAxis(v) == IF v.form = "point" THEN v.x2 = 0 /\ v.z2 = 0 ELSE v.r = 0

\* the index of the ring angle of a vertex, out of n: atan2(point[2], point[0])
AngleIndex(v) == IF v.form = "ring" THEN v.angle[1] ELSE 0

\* (atan2(point[0], point[2]) + PI) / 2.0 / PI in units of 1 / (4 n), for a vertex
\* at longitude j * 2 PI / n; a vertex on the axis yields 0.5
Longitude(v, n) ==
    CASE v.form = "ring" /\ v.r # 0 -> (3 * n - 4 * v.angle[1]) % (4 * n)
      [] v.form = "polar" /\ v.r # 0 -> (3 * n - 4 * v.th[1]) % (4 * n)
      [] OTHER -> 2 * n

\* "if(s[j] < 1.0e-6) s[j] = 0.0; if(s[j] > 1.0) s[j] = 1.0;
\*  if(over && s[j]==0.0){ s[j] = 1.0; }" on a longitude in units of 1 / (4 n)
SeamLongitude_unchanged(over, raw, n) == raw

SeamLongitude(over, raw, n) ==
    LET clamped == IF raw > 4 * n THEN 4 * n ELSE raw
    IN IF over /\ clamped = 0 THEN 4 * n ELSE clamped

\* the last corner j (0-based) of a triangle for which the test holds, or -1
LastCorner(holds) ==
    IF holds[3] THEN 2 ELSE IF holds[2] THEN 1 ELSE IF holds[1] THEN 0 ELSE -1

TrianglePoints(mesh, k) == [j \in 1 .. 3 |-> mesh.vertices[mesh.triangles[k][j] + 1]]

generateTextureCoordinateForSphere(mesh) ==
    LET radius == mesh.primitive[2]
        \* the division numbers the ring vertices were laid with
        n == mesh.vertices[1].th[2]
        vdn == mesh.vertices[1].tv[2]
        corners == [k \in 1 .. Len(mesh.triangles) |->
            LET point == TrianglePoints(mesh, k)
                over == \E j \in 1 .. 3 : Longitude(point[j], n) > 2 * n
            IN [j \in 1 .. 3 |->
                  LET raw == Longitude(point[j], n)
                      s == SeamLongitude(over, raw, n)
                      \* 1.0 - acos(w) / PI with w = y / radius
                      t == IF point[j].form = "polar" THEN vdn - point[j].tv[1]
                           ELSE IF VertexY2(point[j]) > 0 THEN vdn ELSE 0
                  IN [isCenter |-> FALSE,
                      point |-> IF radius = 0 THEN NaNPoint(s, 4 * n)
                                ELSE ST(s, 4 * n, t, vdn)]]]
    IN WithTexCoords(mesh,
          BuildTexCoords(CornersOf(mesh, corners), 1, 3 * Len(mesh.triangles),
                         [texCoords |-> <<>>, texCoordIndices |-> <<>>, texIndex |-> 0]))

generateTextureCoordinateForCylinder(mesh) ==
    LET n == (Len(mesh.vertices) - 2) \div 2
        corners == [k \in 1 .. Len(mesh.triangles) |->
            LET point == TrianglePoints(mesh, k)
                notside == /\ VertexY2(point[1]) = VertexY2(point[2])
                           /\ VertexY2(point[1]) = VertexY2(point[3])
                center == LastCorner([j \in 1 .. 3 |-> OnAxis(point[j])])
                over == \E j \in 1 .. 3 : Longitude(point[j], n) > 2 * n
            IN [j \in 1 .. 3 |->
                  IF ~notside
                  THEN LET raw == Longitude(point[j], n)
                           s == SeamLongitude(over, raw, n)
                           t == IF VertexY2(point[j]) > 0 THEN 1 ELSE 0
                       IN [isCenter |-> FALSE, point |-> ST(s, 4 * n, t, 1)]
                  ELSE IF j - 1 # center
                  THEN LET i == AngleIndex(point[j])
                           \* top: 0.5 - 0.5 sin(angle); bottom: 0.5 + 0.5 sin(angle)
                           a == IF VertexY2(point[1]) > 0 THEN (n - i) % n ELSE i
                       IN [isCenter |-> FALSE, point |-> DiscPoint(a, n, 4 * n)]
                  ELSE [isCenter |-> TRUE, point |-> ST(2 * n, 4 * n, 1, 2)]]]
    IN WithTexCoords(mesh,
          BuildTexCoords(CornersOf(mesh, corners), 1, 3 * Len(mesh.triangles),
                         [texCoords |-> << ST(2 * n, 4 * n, 1, 2) >>,
                          texCoordIndices |-> <<>>, texIndex |-> 1]))

generateTextureCoordinateForCone(mesh) ==
    LET n == Len(mesh.vertices) - 2
        corners == [k \in 1 .. Len(mesh.triangles) |->
            LET point == TrianglePoints(mesh, k)
                top == LastCorner([j \in 1 .. 3 |-> VertexY2(point[j]) > 0])
                center == LastCorner([j \in 1 .. 3 |-> OnAxis(point[j])])
                \* the two corners other than top, in order
                first == IF top = 0 THEN 2 ELSE 1
                second == IF top = 2 THEN 2 ELSE 3
                s1 == Longitude(point[first], n)
                raw2 == Longitude(point[second], n)
                s2 == IF s1 > 2 * n /\ raw2 = 0 THEN 4 * n ELSE raw2
            IN [j \in 1 .. 3 |->
                  IF top >= 0
                  THEN [isCenter |-> FALSE,
                        point |-> IF j - 1 = top THEN ST(s1 + s2, 8 * n, 1, 1)
                                  ELSE IF j = first THEN ST(2 * s1, 8 * n, 0, 1)
                                  ELSE ST(2 * s2, 8 * n, 0, 1)]
                  ELSE IF j - 1 # center
                  THEN [isCenter |-> FALSE,
                        point |-> DiscPoint(AngleIndex(point[j]), n, 8 * n)]
                  ELSE [isCenter |-> TRUE, point |-> ST(4 * n, 8 * n, 1, 2)]]]
    IN WithTexCoords(mesh,
          BuildTexCoords(CornersOf(mesh, corners), 1, 3 * Len(mesh.triangles),
                         [texCoords |-> << ST(4 * n, 8 * n, 1, 2) >>,
                          texCoordIndices |-> <<>>, texIndex |-> 1]))

(***************************************************************************)
(* generateBox                                                             *)
(***************************************************************************)
generateTextureCoordinateForBox(mesh) ==
    [mesh EXCEPT
        !.hasTexCoords = TRUE,
        !.texCoords = << <<0, 0>>, <<1, 0>>, <<0, 1>>, <<1, 1>> >>,
        !.texCoordIndices = <<3, 2, 0,  0, 1, 3,  1, 2, 0,  1, 3, 2,
                              3, 2, 0,  3, 0, 1,  2, 0, 1,  2, 1, 3,
                              0, 1, 3,  0, 3, 2,  2, 1, 3,  2, 0, 1>>,
        !.steps = Append(@, <<"texCoords">>)]

generateBox(self, size, enableTextureCoordinate) ==
    IF size[1] < 0 \/ size[2] < 0 \/ size[3] < 0 THEN Null
    ELSE
    LET x == size[1]
        y == size[2]
        z == size[3]
        m0 == [NewMesh EXCEPT
                !.vertices = << Point( x,  y,  z), Point(-x,  y,  z),
                                Point(-x, -y,  z), Point( x, -y,  z),
                                Point( x,  y, -z), Point(-x,  y, -z),
                                Point(-x, -y, -z), Point( x, -y, -z) >>,
                !.triangles = << <<0,1,2>>, <<2,3,0>>,
                                 <<0,5,1>>, <<0,4,5>>,
                                 <<1,5,6>>, <<1,6,2>>,
                                 <<2,6,7>>, <<2,7,3>>,
                                 <<3,7,4>>, <<3,4,0>>,
                                 <<4,6,5>>, <<4,7,6>> >>,
                !.primitive = <<"BOX", size>>]
        m1 == updateBoundingBox(self, m0)
        m2 == generateNormals(self, m1, 0)
    IN IF enableTextureCoordinate THEN generateTextureCoordinateForBox(m2) ELSE m2

(***************************************************************************)
(* generateSphere                                                          *)
(***************************************************************************)
\* the fan round a pole: "top faces"
TopFaces(topIndex, hdn) ==
    [k \in 1 .. hdn |-> LET i == k - 1 IN <<topIndex, (i + 1) % hdn, i>>]

\* the bands between the rings 0 .. bands: "side faces"
SideFaces(bands, hdn) ==
    [k \in 1 .. bands * hdn * 2 |->
        LET i == (k - 1) \div (2 * hdn)
            j == ((k - 1) % (2 * hdn)) \div 2
            upper == i * hdn
            lower == (i + 1) * hdn
        IN IF (k - 1) % 2 = 0
           THEN <<j + upper, ((j + 1) % hdn) + lower, j + lower>>
           ELSE <<j + upper, ((j + 1) % hdn) + upper, ((j + 1) % hdn) + lower>>]

\* the fan round the other pole, on the ring that starts at offset: "bottom faces"
BottomFaces_reversed(bottomIndex, offset, hdn) ==
    [k \in 1 .. hdn |->
        LET i == k - 1
        IN <<bottomIndex, ((i + 1) % hdn) + offset, (i % hdn) + offset>>]

BottomFaces(bottomIndex, offset, hdn) ==
    [k \in 1 .. hdn |->
        LET i == k - 1
        IN <<bottomIndex, (i % hdn) + offset, ((i + 1) % hdn) + offset>>]

\* for(int i=0; i < vdn - 2; ++i) with a band of 2 hdn triangles each
SphereSideFaces_oneMore(vdn, hdn) == SideFaces(vdn - 1, hdn)

SphereSideFaces(vdn, hdn) == SideFaces(vdn - 2, hdn)

generateSphere(self, radius, enableTextureCoordinate) ==
    IF radius < 0 \/ self.divisionNumber_ < 4 THEN Null
    ELSE
    LET vdn == self.divisionNumber_ \div 2
        hdn == self.divisionNumber_
        rings == [k \in 1 .. (vdn - 1) * hdn |->
                    LET i == 1 + (k - 1) \div hdn
                        j == (k - 1) % hdn
                    IN Polar(radius, i, vdn, j, hdn, 0)]
        topIndex == Len(rings)
        bottomIndex == topIndex + 1
        vertices == rings \o << Point(0, 2 * radius, 0), Point(0, -2 * radius, 0) >>
        top == TopFaces(topIndex, hdn)
        side == SphereSideFaces(vdn, hdn)
        bottom == BottomFaces(bottomIndex, (vdn - 2) * hdn, hdn)
        m0 == [NewMesh EXCEPT
                !.vertices = vertices,
                !.triangles = top \o side \o bottom,
                !.primitive = <<"SPHERE", radius>>]
        m1 == updateBoundingBox(self, m0)
        m2 == generateNormals(self, m1, 2)
    IN IF enableTextureCoordinate THEN generateTextureCoordinateForSphere(m2) ELSE m2

(***************************************************************************)
(* generateCylinder                                                        *)
(***************************************************************************)
\* the triangles the loop body adds for ring position i
CylinderFaces_topWithSide(dn, i, bottom, top, side) ==
    LET topCenterIndex == 2 * dn
        bottomCenterIndex == 2 * dn + 1
    IN (IF top /\ side THEN << <<topCenterIndex, (i + 1) % dn, i>> >> ELSE <<>>)
       \o (IF side
           THEN << <<i, ((i + 1) % dn) + dn, i + dn>>,
                   <<i, (i + 1) % dn, ((i + 1) % dn) + dn>> >>
           ELSE <<>>)
       \o (IF bottom
           THEN << <<bottomCenterIndex, i + dn, ((i + 1) % dn) + dn>> >>
           ELSE <<>>)

CylinderFaces(dn, i, bottom, top, side) ==
    LET topCenterIndex == 2 * dn
        bottomCenterIndex == 2 * dn + 1
    IN (IF top THEN << <<topCenterIndex, (i + 1) % dn, i>> >> ELSE <<>>)
       \o (IF side
           THEN << <<i, ((i + 1) % dn) + dn, i + dn>>,
                   <<i, (i + 1) % dn, ((i + 1) % dn) + dn>> >>
           ELSE <<>>)
       \o (IF bottom
           THEN << <<bottomCenterIndex, i + dn, ((i + 1) % dn) + dn>> >>
           ELSE <<>>)

generateCylinder(self, radius, height, bottom, top, side, enableTextureCoordinate) ==
    IF height < 0 \/ radius < 0 THEN Null
    ELSE
    LET dn == self.divisionNumber_
        ring == [k \in 1 .. 2 * dn |->
                    IF k <= dn THEN Ring(radius, k - 1, dn, height)
                               ELSE Ring(radius, k - 1 - dn, dn, -height)]
        vertices == ring \o << Point(0, height, 0), Point(0, -height, 0) >>
        m0 == [NewMesh EXCEPT
                !.vertices = vertices,
                !.triangles = Concat([k \in 1 .. dn |->
                                        CylinderFaces(dn, k - 1, bottom, top, side)], dn),
                !.primitive = <<"CYLINDER", radius, height>>]
        m1 == updateBoundingBox(self, m0)
        m2 == generateNormals(self, m1, 1)
    IN IF enableTextureCoordinate THEN generateTextureCoordinateForCylinder(m2) ELSE m2

(***************************************************************************)
(* generateCone                                                            *)
(***************************************************************************)
ConeFaces(dn, i, bottom, side) ==
    LET topIndex == dn
        bottomCenterIndex == dn + 1
    IN (IF side THEN << <<topIndex, (i + 1) % dn, i>> >> ELSE <<>>)
       \o (IF bottom THEN << <<bottomCenterIndex, i, (i + 1) % dn>> >> ELSE <<>>)

generateCone(self, radius, height, bottom, side, enableTextureCoordinate) ==
    IF radius < 0 \/ height < 0 THEN Null
    ELSE
    LET dn == self.divisionNumber_
        ring == [k \in 1 .. dn |-> Ring(radius, k - 1, dn, -height)]
        vertices == ring \o << Point(0, height, 0), Point(0, -height, 0) >>
        m0 == [NewMesh EXCEPT
                !.vertices = vertices,
                !.triangles = Concat([k \in 1 .. dn |-> ConeFaces(dn, k - 1, bottom, side)], dn),
                !.primitive = <<"CONE", radius, height>>]
        m1 == updateBoundingBox(self, m0)
        m2 == generateNormals(self, m1, 1)
    IN IF enableTextureCoordinate THEN generateTextureCoordinateForCone(m2) ELSE m2

(***************************************************************************)
(* generateCapsule                                                         *)
(***************************************************************************)
\* int vdn = divisionNumber_ / 2; if(vdn%2) vdn +=1;
CapsuleVdn_asHalved(dn) == dn \div 2

CapsuleVdn(dn) ==
    LET vdn == dn \div 2
    IN IF vdn % 2 # 0 THEN vdn + 1 ELSE vdn

generateCapsule(self, radius, height) ==
    IF height < 0 \/ radius < 0 THEN Null
    ELSE
    LET vdn == CapsuleVdn(self.divisionNumber_)
        hdn == self.divisionNumber_
        rings == [k \in 1 .. vdn * hdn |->
                    LET i == 1 + (k - 1) \div hdn
                        j == (k - 1) % hdn
                    IN IF i <= vdn \div 2
                       THEN Polar(radius, i, vdn, j, hdn, height)
                       ELSE Polar(radius, i - 1, vdn, j, hdn, -height)]
        topIndex == Len(rings)
        bottomIndex == topIndex + 1
        vertices == rings \o << Point(0, 2 * radius + height, 0),
                                Point(0, -2 * radius - height, 0) >>
        top == TopFaces(topIndex, hdn)
        side == SideFaces(vdn - 1, hdn)
        bottom == BottomFaces(bottomIndex, (vdn - 1) * hdn, hdn)
        m0 == [NewMesh EXCEPT
                !.vertices = vertices,
                !.triangles = top \o side \o bottom,
                !.primitive = <<"CAPSULE", radius, height>>]
        m1 == updateBoundingBox(self, m0)
    IN generateNormals(self, m1, 1)

(***************************************************************************)
(* generateDisc                                                            *)
(***************************************************************************)
\* if(innerRadius <= 0.0 || radius <= innerRadius) return nullptr;
DiscIsRejected_negativeOnly(radius, innerRadius) == innerRadius < 0 \/ radius <= innerRadius

DiscIsRejected(radius, innerRadius) == innerRadius <= 0 \/ radius <= innerRadius

generateDisc(self, radius, innerRadius) ==
    IF DiscIsRejected(radius, innerRadius) THEN Null
    ELSE
    LET dn == self.divisionNumber_
        vertices == [k \in 1 .. 2 * dn |->
                        LET i == (k - 1) \div 2
                        IN IF (k - 1) % 2 = 0 THEN Ring(innerRadius, i, dn, 0)
                                             ELSE Ring(radius, i, dn, 0)]
        triangles == [k \in 1 .. 2 * dn |->
                        LET i == (k - 1) \div 2
                            j == (i + 1) % dn
                            current == i * 2
                            next == j * 2
                        IN IF (k - 1) % 2 = 0
                           THEN <<current, current + 1, next + 1>>
                           ELSE <<current, next + 1, next>>]
        m0 == [NewMesh EXCEPT
                !.vertices = vertices,
                !.triangles = triangles,
                !.normals = << <<0, 0, 1>> >>,
                !.normalIndices = [k \in 1 .. 6 * dn |-> 0]]
    IN updateBoundingBox(self, m0)

(***************************************************************************)
(* generateTorus                                                           *)
(***************************************************************************)
\* (divisionNumber, angle) pairs for which the double quotient
\* divisionNumber_ * endAngle / (2.0 * PI) falls just below the exact integer value
\* dn * a / 4, so that the conversion to int yields one less (IEEE-754 binary64,
\* dn <= 40, a <= 8)
RoundedBelow ==
    { <<22, 2>>, <<30, 2>>, <<20, 3>>, <<40, 3>>,
      <<11, 4>>, <<15, 4>>, <<22, 4>>, <<30, 4>>,
      <<12, 5>>, <<24, 5>>, <<10, 6>>, <<20, 6>>, <<40, 6>>,
      <<11, 8>>, <<15, 8>>, <<22, 8>>, <<30, 8>> }

\* int phiDivisionNumber = divisionNumber_ * endAngle / (2.0 * PI), for endAngle >= 0
PhiDivisionNumber(dn, endAngle) ==
    IF <<dn, endAngle>> \in RoundedBelow
    THEN (dn * endAngle) \div 4 - 1
    ELSE (dn * endAngle) \div 4

\* the point (cos(phi) r, cr sin(theta), sin(phi) r), r = cr cos(theta) + radius,
\* theta = j * 2 PI / thetaDivisionNumber, and phi the sum of beginAngle and i steps
\* of (endAngle - beginAngle) / stepDivisor
TorusPoint(radius, cr, j, thetaDivisionNumber, beginAngle, endAngle, stepDivisor, i) ==
    [form |-> "torus", radius |-> radius, cr |-> cr, theta |-> <<j, thetaDivisionNumber>>,
     phi |-> [begin |-> beginAngle, steps |-> i,
              step |-> <<endAngle - beginAngle, stepDivisor>>]]

generateTorus(self, radius, crossSectionRadius, beginAngle, endAngle) ==
    LET isSemiTorus == (beginAngle > 0) \/ (endAngle < 4)
        phi0 == PhiDivisionNumber(self.divisionNumber_, endAngle)
        phiDivisionNumber == IF isSemiTorus THEN phi0 + 1 ELSE phi0
        thetaDivisionNumber == self.divisionNumber_ \div 4
        vertices == [k \in 1 .. phiDivisionNumber * thetaDivisionNumber |->
                        LET i == (k - 1) \div thetaDivisionNumber
                            j == (k - 1) % thetaDivisionNumber
                        IN TorusPoint(radius, crossSectionRadius, j, thetaDivisionNumber,
                                      beginAngle, endAngle, phi0, i)]
        n == IF endAngle = 4 THEN phiDivisionNumber ELSE phiDivisionNumber - 1
        triangles == [k \in 1 .. n * thetaDivisionNumber * 2 |->
                        LET i == (k - 1) \div (2 * thetaDivisionNumber)
                            j == ((k - 1) % (2 * thetaDivisionNumber)) \div 2
                            current == i * thetaDivisionNumber
                            next == ((i + 1) % phiDivisionNumber) * thetaDivisionNumber
                            j_next == (j + 1) % thetaDivisionNumber
                        IN IF (k - 1) % 2 = 0
                           THEN <<current + j, next + j_next, next + j>>
                           ELSE <<current + j, current + j_next, next + j_next>>]
        m0 == [NewMesh EXCEPT !.vertices = vertices, !.triangles = triangles]
        m1 == updateBoundingBox(self, m0)
    IN generateNormals(self, m1, 2)

(***************************************************************************)
(* generateArrow                                                           *)
(***************************************************************************)
\* a vertex moved by the SgPosTransform above its shape: translation (0, dy2/2, 0)
Translated(v, dy2) == [form |-> "translated", v |-> v, dy2 |-> dy2]

\* MeshExtractor::integrate on the group {conePos{cone}, cylinder}: the shapes that
\* have a mesh are baked, in child order, into one new mesh
MeshExtractor_integrate(coneMesh, coneDy2, cylinderMesh) ==
    LET coneV == IF coneMesh = Null THEN <<>>
                 ELSE [k \in 1 .. Len(coneMesh.vertices) |->
                          Translated(coneMesh.vertices[k], coneDy2)]
        coneT == IF coneMesh = Null THEN <<>> ELSE coneMesh.triangles
        cylV == IF cylinderMesh = Null THEN <<>> ELSE cylinderMesh.vertices
        cylT == IF cylinderMesh = Null THEN <<>>
                ELSE [k \in 1 .. Len(cylinderMesh.triangles) |->
                        LET t == cylinderMesh.triangles[k]
                        IN <<t[1] + Len(coneV), t[2] + Len(coneV), t[3] + Len(coneV)>>]
    IN [NewMesh EXCEPT !.vertices = coneV \o cylV, !.triangles = coneT \o cylT]

generateArrow(self, cylinderRadius, cylinderHeight, coneRadius, coneHeight) ==
    LET cone == generateCone(self, coneRadius, coneHeight, TRUE, TRUE, FALSE)
        cylinder == generateCylinder(self, cylinderRadius, cylinderHeight, TRUE, FALSE, TRUE, FALSE)
        arrow == MeshExtractor_integrate(cone, cylinderHeight + coneHeight, cylinder)
    IN updateBoundingBox(self, arrow)

(***************************************************************************)
(* generateExtrusion                                                       *)
(*                                                                         *)
(* An Extrusion is a record: crossSection (2D points), spine (3D points),  *)
(* scale (2D factors), orientation (AngleAxis: <<angle, axis>>),           *)
(* creaseAngle, beginCap, endCap.  Coordinates are integers, so that the   *)
(* differences, cross products and dot products of the frame computation   *)
(* are exact.                                                              *)
(***************************************************************************)
Sub3(a, b) == <<a[1] - b[1], a[2] - b[2], a[3] - b[3]>>
Cross(a, b) == <<a[2] * b[3] - a[3] * b[2], a[3] * b[1] - a[1] * b[3], a[1] * b[2] - a[2] * b[1]>>
Dot(a, b) == a[1] * b[1] + a[2] * b[2] + a[3] * b[3]
Neg3(a) == <<-a[1], -a[2], -a[3]>>
Zero3 == <<0, 0, 0>>

\* Triangulator::apply on a polygon of n corners: n - 2 triangles whose entries are
\* positions in the polygon (flat list, as Triangulator::triangles() returns them)
Triangulator_apply(n) ==
    [k \in 1 .. 3 * (n - 2) |->
        LET t == (k - 1) \div 3
            c == (k - 1) % 3
        IN IF c = 0 THEN 0 ELSE t + c]

\* bool isClosed = (extrusion.spine[0] == extrusion.spine[spineSize - 1]), and the
\* sizes after "if(isClosed) spineSize--" and "if(isCrossSectionClosed) crossSectionSize--"
SpineIsClosed_never(e) == FALSE

SpineIsClosed(e) == e.spine[1] = e.spine[Len(e.spine)]
CrossSectionIsClosed(e) == e.crossSection[1] = e.crossSection[Len(e.crossSection)]
EffectiveSpineSize(e) == IF SpineIsClosed(e) THEN Len(e.spine) - 1 ELSE Len(e.spine)
EffectiveCrossSectionSize(e) ==
    IF CrossSectionIsClosed(e) THEN Len(e.crossSection) - 1 ELSE Len(e.crossSection)

\* the indices of spine1, spine2, spine3 in iteration i of the first loop over the
\* spine (spineSize > 2)
SpineTriple(spineSize, isClosed, i) ==
    IF i = 0
    THEN (IF isClosed THEN <<spineSize - 1, 0, 1>> ELSE <<0, 1, 2>>)
    ELSE IF i = spineSize - 1
    THEN (IF isClosed THEN <<spineSize - 2, spineSize - 1, 0>>
                      ELSE <<spineSize - 3, spineSize - 2, spineSize - 1>>)
    ELSE <<i - 1, i, i + 1>>

\* Zaxis = (spine3 - spine2).cross(spine1 - spine2), the candidate of iteration i
CandidateBinormal(spine, spineSize, isClosed, i) ==
    LET at == SpineTriple(spineSize, isClosed, i)
    IN Cross(Sub3(spine[at[3] + 1], spine[at[2] + 1]), Sub3(spine[at[1] + 1], spine[at[2] + 1]))

\* what "if(!Zaxis.norm())" leaves in Zaxis and preZaxis
ReusedZaxis_never(candidate, preZaxis, definedZaxis) == candidate

ReusedZaxis(candidate, preZaxis, definedZaxis) ==
    IF candidate = Zero3
    THEN (IF definedZaxis # -1 THEN preZaxis ELSE candidate)
    ELSE candidate

\* the first loop over the spine (spineSize > 2): st holds Yaxisarray, Zaxisarray,
\* preZaxis and definedZaxis after the iterations before i
RECURSIVE SpineAxes(_, _, _, _)
SpineAxes(spine, spineSize, isClosed, n) ==
    IF n = 0
    THEN [Yaxisarray |-> <<>>, Zaxisarray |-> <<>>, preZaxis |-> Zero3, definedZaxis |-> -1]
    ELSE
    LET st == SpineAxes(spine, spineSize, isClosed, n - 1)
        i == n - 1
        at == SpineTriple(spineSize, isClosed, i)
        spine1 == spine[at[1] + 1]
        spine2 == spine[at[2] + 1]
        spine3 == spine[at[3] + 1]
        Yaxis == IF i = 0 /\ ~isClosed THEN Sub3(spine2, spine1)
                 ELSE IF i = spineSize - 1 /\ ~isClosed THEN Sub3(spine3, spine2)
                 ELSE Sub3(spine3, spine1)
        candidate == CandidateBinormal(spine, spineSize, isClosed, i)
        Zaxis == ReusedZaxis(candidate, st.preZaxis, st.definedZaxis)
    IN [Yaxisarray |-> Append(st.Yaxisarray, Yaxis),
        Zaxisarray |-> Append(st.Zaxisarray, Zaxis),
        preZaxis |-> IF candidate = Zero3 THEN st.preZaxis ELSE candidate,
        definedZaxis |-> IF candidate # Zero3 /\ st.definedZaxis = -1 THEN i
                         ELSE st.definedZaxis]

\* "if(i && (Zaxisarray[i].dot(Zaxisarray[i - 1]) < 0.0)) Zaxisarray[i] *= -1.0"
FlippedZaxis_never(i, z, previous) == z

FlippedZaxis(i, z, previous) == IF i # 0 /\ Dot(z, previous) < 0 THEN Neg3(z) ELSE z

\* Zaxisarray as the second loop leaves it after its first n iterations
\* (definedZaxis # -1): earlier frames inherit the first defined axis, and a frame
\* pointing against its predecessor is turned round
RECURSIVE FinalZaxes(_, _, _)
FinalZaxes(Zaxisarray, definedZaxis, n) ==
    IF n = 0 THEN <<>>
    ELSE
    LET before == FinalZaxes(Zaxisarray, definedZaxis, n - 1)
        i == n - 1
        inherited == IF i < definedZaxis THEN Zaxisarray[definedZaxis + 1]
                     ELSE Zaxisarray[i + 1]
    IN Append(before, FlippedZaxis(i, inherited, IF i = 0 THEN Zero3 ELSE before[i]))

\* the frames Scp of all spine points: <<Yaxis, Zaxis>>, with Zaxis = <<>> where the
\* frame is the rotation AngleAxis(acos(y[1]), (y[2], 0, -y[0])) built from y alone
SpineFrames(e, spineSize, isClosed) ==
    LET axes == IF spineSize > 2
                THEN SpineAxes(e.spine, spineSize, isClosed, spineSize)
                ELSE [Yaxisarray |-> << Sub3(e.spine[2], e.spine[1]),
                                        Sub3(e.spine[2], e.spine[1]) >>,
                      Zaxisarray |-> <<>>, preZaxis |-> Zero3, definedZaxis |-> -1]
        zs == IF axes.definedZaxis = -1 THEN <<>>
              ELSE FinalZaxes(axes.Zaxisarray, axes.definedZaxis, spineSize)
    IN [i \in 1 .. spineSize |->
          <<axes.Yaxisarray[i], IF axes.definedZaxis = -1 THEN <<>> ELSE zs[i]>>]

\* extrusion.scale[k] and extrusion.orientation[k] are unchecked reads of a
\* std::vector: for k >= size() the behaviour is undefined.  The outcomes are that
\* the read yields whatever lies behind the array, or that the process faults;
\* "beyond" is the outcome of the call at hand.
Fault == [null |-> "fault"]

Beyond ==
    { [scale |-> <<0, 0>>, orientation |-> <<0, <<0, 0, 1>>>>],
      [scale |-> <<7, -3>>, orientation |-> <<1, <<1, 0, 0>>>>],
      Fault }

\* the index of the entry read at spine point i (0-based) from an array of n >= 1
\* entries: "if(num == 1) ...[0]  else if(num > 1) ...[i]"
EntryIndex(n, i) == IF n = 1 THEN 0 ELSE i

\* the entries of extrusion.scale and extrusion.orientation that the second loop
\* over the spine reads
ScaleEntriesRead(e) ==
    IF Len(e.scale) = 0 THEN {}
    ELSE {EntryIndex(Len(e.scale), i) : i \in 0 .. EffectiveSpineSize(e) - 1}

OrientationEntriesRead(e) ==
    IF Len(e.orientation) = 0 THEN {}
    ELSE {EntryIndex(Len(e.orientation), i) : i \in 0 .. EffectiveSpineSize(e) - 1}

\* TRUE when the call reads behind the end of one of the two arrays
ReadsBeyond(e) ==
    \/ \E k \in ScaleEntriesRead(e) : k >= Len(e.scale)
    \/ \E k \in OrientationEntriesRead(e) : k >= Len(e.orientation)

\* scale and orientation in force at spine point i (0-based)
ScaleAt_default(e, i, beyond) == <<1, 0, 1>>

ScaleAt(e, i, beyond) ==
    IF Len(e.scale) = 0 THEN <<1, 0, 1>>
    ELSE LET k == EntryIndex(Len(e.scale), i)
             entry == IF k < Len(e.scale) THEN e.scale[k + 1] ELSE beyond.scale
         IN <<entry[1], 0, entry[2]>>

OrientationAt(e, i, beyond) ==
    IF Len(e.orientation) = 0 THEN <<0, <<0, 0, 1>>>>
    ELSE LET k == EntryIndex(Len(e.orientation), i)
         IN IF k < Len(e.orientation) THEN e.orientation[k + 1] ELSE beyond.orientation

\* the point Scp * orientation.toRotationMatrix() * v1 + spine
Swept(frame, orientation, v1, spine) ==
    [form |-> "swept", frame |-> frame, orientation |-> orientation, v1 |-> v1,
     spine |-> spine]

\* the extent loop of the cap texture block, after the points 1 .. n (C++ 0 .. n-1)
RECURSIVE CrossSectionExtent(_, _)
CrossSectionExtent(crossSection, n) ==
    IF n = 1
    THEN [xmin |-> crossSection[1][1], xmax |-> crossSection[1][1],
          zmin |-> crossSection[1][2], zmax |-> crossSection[1][2]]
    ELSE
    LET b == CrossSectionExtent(crossSection, n - 1)
        p == crossSection[n]
        Max(u, v) == IF u < v THEN v ELSE u
        Min(u, v) == IF v < u THEN v ELSE u
        xmin == Min(b.xmin, p[1])
    IN [xmax |-> Max(b.xmax, p[1]),
        xmin |-> xmin,
        zmax |-> Max(b.zmax, p[2]),
        zmin |-> Min(xmin, p[2])]

\* mesh->triangleVertices()[p]
TriangleVertex(mesh, p) == mesh.triangles[1 + (p \div 3)][1 + (p % 3)]

\* mesh->triangleVertices()
Flatten(triangles) ==
    [k \in 1 .. 3 * Len(triangles) |-> triangles[1 + ((k - 1) \div 3)][1 + ((k - 1) % 3)]]

generateTextureCoordinateForExtrusion(mesh, crossSection, spine, numTriOfbeginCap, numTriOfendCap, indexOfendCap) ==
    LET spineSize == Len(spine)
        crossSectionSize == Len(crossSection)
        \* (s[j] / slen, t[i] / tlen): chord lengths up to point j resp. i
        sideCoords == [k \in 1 .. spineSize * crossSectionSize |->
                         [form |-> "chord", s |-> (k - 1) % crossSectionSize,
                          t |-> (k - 1) \div crossSectionSize]]
        sideIndices ==
            [k \in 1 .. (spineSize - 1) * (crossSectionSize - 1) * 6 |->
                LET i == (k - 1) \div (6 * (crossSectionSize - 1))
                    j == ((k - 1) % (6 * (crossSectionSize - 1))) \div 6
                    c == (k - 1) % 6
                    upper == i * crossSectionSize
                    lower == (i + 1) * crossSectionSize
                    jj == j + 1
                IN << j + upper, j + lower, jj + lower,
                      j + upper, jj + lower, jj + upper >>[c + 1]]
        endCapE == 3 * Len(mesh.triangles)
        endCapS == endCapE - numTriOfendCap * 3
        beginCapE == endCapS
        beginCapS == beginCapE - numTriOfbeginCap * 3
        b == CrossSectionExtent(crossSection, crossSectionSize)
        xsize == b.xmax - b.xmin
        zsize == b.zmax - b.zmin
        \* quotients are kept as <<numerator, denominator>>
        beginCoords == IF numTriOfbeginCap = 0 THEN <<>>
                       ELSE [i \in 1 .. crossSectionSize |->
                               [form |-> "cap",
                                u |-> <<crossSection[i][1] - b.xmin, xsize>>,
                                v |-> <<crossSection[i][2] - b.zmin, zsize>>]]
        beginIndices == IF numTriOfbeginCap = 0 THEN <<>>
                        ELSE [k \in 1 .. beginCapE - beginCapS |->
                                TriangleVertex(mesh, beginCapS + k - 1) + Len(sideCoords)]
        endCoords == IF numTriOfendCap = 0 THEN <<>>
                     ELSE [i \in 1 .. crossSectionSize |->
                             [form |-> "cap",
                              u |-> <<b.xmax - crossSection[i][1], xsize>>,
                              v |-> <<crossSection[i][2] - b.zmin, zsize>>]]
        endIndices == IF numTriOfendCap = 0 THEN <<>>
                      ELSE [k \in 1 .. endCapE - endCapS |->
                              TriangleVertex(mesh, endCapS + k - 1) - indexOfendCap
                                + Len(sideCoords) + Len(beginCoords)]
    IN IF numTriOfbeginCap + numTriOfendCap = 0
       THEN [mesh EXCEPT !.hasTexCoords = TRUE,
                         !.texCoords = sideCoords,
                         !.texCoordIndices = sideIndices,
                         !.steps = Append(@, <<"texCoords">>)]
       ELSE [mesh EXCEPT !.hasTexCoords = TRUE,
                         !.texCoords = sideCoords \o beginCoords \o endCoords,
                         !.texCoordIndices = sideIndices \o beginIndices \o endIndices,
                         !.steps = Append(@, <<"texCoords">>)]

\* the triangles of the quad strips between consecutive spine rings
ExtrusionSideTriangles_noWrap(spineSize, crossSectionSize, isClosed, isCrossSectionClosed) ==
    LET numSpinePoints == IF isClosed THEN spineSize + 1 ELSE spineSize
        numCrossPoints == crossSectionSize
    IN [k \in 1 .. (numSpinePoints - 1) * (numCrossPoints - 1) * 2 |->
          LET i == (k - 1) \div (2 * (numCrossPoints - 1))
              j == ((k - 1) % (2 * (numCrossPoints - 1))) \div 2
              ii == (i + 1) % spineSize
              upper == i * crossSectionSize
              lower == ii * crossSectionSize
              jj == (j + 1) % crossSectionSize
          IN IF (k - 1) % 2 = 0
             THEN <<j + upper, j + lower, jj + lower>>
             ELSE <<j + upper, jj + lower, jj + upper>>]

ExtrusionSideTriangles(spineSize, crossSectionSize, isClosed, isCrossSectionClosed) ==
    LET numSpinePoints == IF isClosed THEN spineSize + 1 ELSE spineSize
        numCrossPoints == IF isCrossSectionClosed THEN crossSectionSize + 1
                          ELSE crossSectionSize
    IN [k \in 1 .. (numSpinePoints - 1) * (numCrossPoints - 1) * 2 |->
          LET i == (k - 1) \div (2 * (numCrossPoints - 1))
              j == ((k - 1) % (2 * (numCrossPoints - 1))) \div 2
              ii == (i + 1) % spineSize
              upper == i * crossSectionSize
              lower == ii * crossSectionSize
              jj == (j + 1) % crossSectionSize
          IN IF (k - 1) % 2 = 0
             THEN <<j + upper, j + lower, jj + lower>>
             ELSE <<j + upper, jj + lower, jj + upper>>]

\* the polygons handed to the Triangulator: the first and the last ring
BeginCapPolygon(crossSectionSize) == [k \in 1 .. crossSectionSize |-> k - 1]

EndCapPolygon(crossSectionSize, spineSize) ==
    [k \in 1 .. crossSectionSize |-> crossSectionSize * (spineSize - 1) + k - 1]

\* the cap triangles: polygon[triangles[i]], polygon[triangles[i+1]],
\* polygon[triangles[i+2]] for the begin cap, the last two exchanged for the end cap
BeginCapTriangles(crossSectionSize) ==
    LET triangles == Triangulator_apply(crossSectionSize)
        polygon == BeginCapPolygon(crossSectionSize)
    IN [t \in 1 .. Len(triangles) \div 3 |->
          <<polygon[triangles[3 * t - 2] + 1], polygon[triangles[3 * t - 1] + 1],
            polygon[triangles[3 * t] + 1]>>]

EndCapTriangles_unswapped(crossSectionSize, spineSize) ==
    LET triangles == Triangulator_apply(crossSectionSize)
        polygon == EndCapPolygon(crossSectionSize, spineSize)
    IN [t \in 1 .. Len(triangles) \div 3 |->
          <<polygon[triangles[3 * t - 2] + 1], polygon[triangles[3 * t - 1] + 1],
            polygon[triangles[3 * t] + 1]>>]

EndCapTriangles(crossSectionSize, spineSize) ==
    LET triangles == Triangulator_apply(crossSectionSize)
        polygon == EndCapPolygon(crossSectionSize, spineSize)
    IN [t \in 1 .. Len(triangles) \div 3 |->
          <<polygon[triangles[3 * t - 2] + 1], polygon[triangles[3 * t] + 1],
            polygon[triangles[3 * t - 1] + 1]>>]

\* beyond: the outcome of reads behind the end of extrusion.scale and
\* extrusion.orientation, should the call make any
generateExtrusion(self, e, enableTextureCoordinate, beyond) ==
    IF Len(e.spine) < 2 \/ Len(e.crossSection) < 2 THEN Null
    ELSE
    LET isClosed == SpineIsClosed(e)
        isCrossSectionClosed == CrossSectionIsClosed(e)
        spineSize == EffectiveSpineSize(e)
        crossSectionSize == EffectiveCrossSectionSize(e)
    IN IF spineSize < 2 \/ crossSectionSize < 2 THEN Null
       ELSE IF ReadsBeyond(e) /\ beyond = Fault THEN Fault
       ELSE
       LET frames == SpineFrames(e, spineSize, isClosed)
           vertices == [k \in 1 .. spineSize * crossSectionSize |->
                          LET i == (k - 1) \div crossSectionSize
                              j == (k - 1) % crossSectionSize
                              scale == ScaleAt(e, i, beyond)
                              crossSection == <<e.crossSection[j + 1][1], 0,
                                                e.crossSection[j + 1][2]>>
                              v1 == <<crossSection[1] * scale[1], 0, crossSection[3] * scale[3]>>
                          IN Swept(frames[i + 1], OrientationAt(e, i, beyond), v1, e.spine[i + 1])]
           side == ExtrusionSideTriangles(spineSize, crossSectionSize,
                                          isClosed, isCrossSectionClosed)
           beginCap == IF e.beginCap /\ ~isClosed THEN BeginCapTriangles(crossSectionSize)
                       ELSE <<>>
           endCap == IF e.endCap /\ ~isClosed THEN EndCapTriangles(crossSectionSize, spineSize)
                     ELSE <<>>
           polygons == (IF e.beginCap /\ ~isClosed
                        THEN <<BeginCapPolygon(crossSectionSize)>> ELSE <<>>)
                       \o (IF e.endCap /\ ~isClosed
                           THEN <<EndCapPolygon(crossSectionSize, spineSize)>> ELSE <<>>)
           m0 == [NewMesh EXCEPT !.vertices = vertices,
                                 !.triangles = side \o beginCap \o endCap,
                                 !.polygons = polygons]
           m1 == updateBoundingBox(self, m0)
           m2 == generateNormals(self, m1, e.creaseAngle)
       IN IF enableTextureCoordinate
          THEN generateTextureCoordinateForExtrusion(
                   m2, e.crossSection, e.spine, Len(beginCap), Len(endCap),
                   crossSectionSize * (spineSize - 1))
          ELSE m2

(***************************************************************************)
(* generateExtrusionLineSet                                                *)
(*                                                                         *)
(* A line set is a record: vertices (those of the mesh) and lines, each a  *)
(* pair of vertex indices.                                                 *)
(***************************************************************************)
\* the lines added for ring i (0-based) by the loop "for(int i=0; i < n; ++i)": one
\* along the cross-section and one to the next ring for every j < m
RingLines(i, m) ==
    [k \in 1 .. 2 * m |->
        LET j == (k - 1) \div 2
            o == i * m
        IN IF (k - 1) % 2 = 0 THEN <<o + j, o + ((j + 1) % m)>> ELSE <<o + j, o + j + m>>]

\* the lines added after the loop when the spine is open
LastRingLines(o, m) == [k \in 1 .. m |-> <<o + (k - 1), o + (k % m)>>]

generateExtrusionLineSet(e, mesh) ==
    LET nc == Len(e.crossSection)
        ns == Len(e.spine)
    IN IF nc < 4 \/ ns < 2 THEN Null
       ELSE
       LET n == ns - 1
           isSpineClosed == e.spine[1] = e.spine[ns]
           isCrossSectionClosed == e.crossSection[1] = e.crossSection[nc]
           m == IF isCrossSectionClosed THEN nc - 1 ELSE nc
           rings == Concat([i \in 1 .. n |-> RingLines(i - 1, m)], n)
       IN [vertices |-> mesh.vertices,
           lines |-> IF ~isSpineClosed THEN rings \o LastRingLines(n * m, m) ELSE rings]

(***************************************************************************)
(* generateElevationGrid                                                   *)
(*                                                                         *)
(* An ElevationGrid is a record: xDimension, zDimension, xSpacing,         *)
(* zSpacing, height, ccw, creaseAngle.                                     *)
(***************************************************************************)
\* number of iterations of "for(int k=0; k < n; ++k)"
Iterations(n) == IF n < 0 THEN 0 ELSE n

\* Vector3f(x, y, z)
GridPoint(x, y, z) == [form |-> "xyz", x |-> x, y |-> y, z |-> z]

generateTextureCoordinateForElevationGrid(mesh, grid) ==
    LET xmax == grid.xSpacing * (grid.xDimension - 1)
        zmax == grid.zSpacing * (grid.zDimension - 1)
    IN [mesh EXCEPT
          !.hasTexCoords = TRUE,
          !.texCoords = [i \in 1 .. Len(mesh.vertices) |->
                           [form |-> "uv", u |-> <<mesh.vertices[i].x, xmax>>,
                            v |-> <<mesh.vertices[i].z, zmax>>]],
          !.texCoordIndices = Flatten(mesh.triangles),
          !.steps = Append(@, <<"texCoords">>)]

\* if(grid.xDimension * grid.zDimension != static_cast<int>(grid.height.size()))
GridIsRejected_whenShort(grid) == grid.xDimension * grid.zDimension > Len(grid.height)

GridIsRejected(grid) == grid.xDimension * grid.zDimension # Len(grid.height)

\* the first resp. the second triangle added for the cell at column x between the
\* rows starting at current and next
GridTriangle_alwaysCcw(ccw, isFirst, x, current, next) ==
    IF isFirst THEN <<x + current, x + next, (x + 1) + next>>
    ELSE <<x + current, (x + 1) + next, (x + 1) + current>>

GridTriangle(ccw, isFirst, x, current, next) ==
    IF ccw
    THEN (IF isFirst THEN <<x + current, x + next, (x + 1) + next>>
          ELSE <<x + current, (x + 1) + next, (x + 1) + current>>)
    ELSE (IF isFirst THEN <<x + current, (x + 1) + next, x + next>>
          ELSE <<x + current, (x + 1) + current, (x + 1) + next>>)

generateElevationGrid(self, grid, enableTextureCoordinate) ==
    IF GridIsRejected(grid) THEN Null
    ELSE
    LET xn == Iterations(grid.xDimension)
        vertices == [k \in 1 .. Iterations(grid.zDimension) * xn |->
                        LET z == (k - 1) \div xn
                            x == (k - 1) % xn
                        IN GridPoint(x * grid.xSpacing,
                                     grid.height[z * grid.xDimension + x + 1],
                                     z * grid.zSpacing)]
        cells == Iterations(grid.xDimension - 1)
        triangles == [k \in 1 .. Iterations(grid.zDimension - 1) * cells * 2 |->
                        LET z == (k - 1) \div (2 * cells)
                            x == ((k - 1) % (2 * cells)) \div 2
                            current == z * grid.xDimension
                            next == (z + 1) * grid.xDimension
                        IN GridTriangle(grid.ccw, (k - 1) % 2 = 0, x, current, next)]
        m0 == [NewMesh EXCEPT !.vertices = vertices, !.triangles = triangles]
        m1 == generateNormals(self, m0, grid.creaseAngle)
        m2 == IF enableTextureCoordinate
              THEN generateTextureCoordinateForElevationGrid(m1, grid)
              ELSE m1
    IN updateBoundingBox(self, m2)

(***************************************************************************)
(* StdSceneWriter (src/Util/StdSceneWriter.cpp): the geometry of a shape    *)
(*                                                                         *)
(* An archive is a record of the keys written to the Mapping; Null is the  *)
(* null MappingPtr.                                                        *)
(***************************************************************************)
\* writeMesh: the archive of a mesh without primitive descriptor, Null where the
\* function returns false and writeGeometry resets the archive
writeMesh(mesh) ==
    IF Len(mesh.vertices) > 0 /\ Len(mesh.triangles) > 0
    THEN [type |-> "TriangleMesh", vertices |-> mesh.vertices,
          triangles |-> Flatten(mesh.triangles)]
    ELSE Null

writeBox(box) == [type |-> "Box", size |-> box[2]]

writeSphere(sphere) == [type |-> "Sphere", radius |-> sphere[2]]

writeCylinder(cylinder) == [type |-> "Cylinder", radius |-> cylinder[2], height |-> cylinder[3]]

writeCone(cone) == [type |-> "Cone", radius |-> cone[2], height |-> cone[3]]

writeCapsule(capsule) == [type |-> "Cone", radius |-> capsule[2], height |-> capsule[3]]

\* writeGeometry(mesh) for a mesh with the given uri, by a writer with the given
\* doEmbedAllMeshes
writeGeometry(mesh, uri, doEmbedAllMeshes) ==
    IF mesh = Null THEN Null
    ELSE IF uri # "" /\ ~doEmbedAllMeshes THEN [type |-> "Resource", uri |-> uri]
    ELSE CASE mesh.primitive[1] = "MESH" -> writeMesh(mesh)
           [] mesh.primitive[1] = "BOX" -> writeBox(mesh.primitive)
           [] mesh.primitive[1] = "SPHERE" -> writeSphere(mesh.primitive)
           [] mesh.primitive[1] = "CYLINDER" -> writeCylinder(mesh.primitive)
           [] mesh.primitive[1] = "CONE" -> writeCone(mesh.primitive)
           [] mesh.primitive[1] = "CAPSULE" -> writeCapsule(mesh.primitive)
           [] OTHER -> Null

(***************************************************************************)
(* The member functions as actions                                         *)
(***************************************************************************)
\* a call of a generator: the configuration is read, the MeshFilter is created on
\* first use, and the mesh (or nullptr) is handed to the caller
Generate(c, mesh, filterUsed) ==
    /\ result # Fault
    /\ call' = c
    /\ result' = mesh
    /\ repeated' = (c = call)
    /\ meshFilter' = (meshFilter \/ filterUsed)
    /\ UNCHANGED <<divisionNumber_, isNormalGenerationEnabled_, isBoundingBoxUpdateEnabled_>>

Configure(c) ==
    /\ result # Fault
    /\ call' = c
    /\ result' = NoValue
    /\ repeated' = FALSE
    /\ UNCHANGED meshFilter

\* the value setDivisionNumber(n) stores
NewDivisionNumber_zeroToo(n) == IF n <= 0 THEN defaultDivisionNumber ELSE n

NewDivisionNumber(n) == IF n < 0 THEN defaultDivisionNumber ELSE n

setDivisionNumber ==
    \E n \in DivisionArgs :
        /\ divisionNumber_' = NewDivisionNumber(n)
        /\ Configure([op |-> "setDivisionNumber", args |-> <<n>>])
        /\ UNCHANGED <<isNormalGenerationEnabled_, isBoundingBoxUpdateEnabled_>>

setNormalGenerationEnabled ==
    \E on \in BOOLEAN :
        /\ isNormalGenerationEnabled_' = on
        /\ Configure([op |-> "setNormalGenerationEnabled", args |-> <<on>>])
        /\ UNCHANGED <<divisionNumber_, isBoundingBoxUpdateEnabled_>>

enableNormalGeneration ==
    \E on \in BOOLEAN :
        /\ isNormalGenerationEnabled_' = on
        /\ Configure([op |-> "enableNormalGeneration", args |-> <<on>>])
        /\ UNCHANGED <<divisionNumber_, isBoundingBoxUpdateEnabled_>>

setBoundingBoxUpdateEnabled ==
    \E on \in BOOLEAN :
        /\ isBoundingBoxUpdateEnabled_' = on
        /\ Configure([op |-> "setBoundingBoxUpdateEnabled", args |-> <<on>>])
        /\ UNCHANGED <<divisionNumber_, isNormalGenerationEnabled_>>

CallGenerateBox ==
    \E size \in BoxSizes, tex \in BOOLEAN :
        LET mesh == generateBox(this, size, tex)
        IN Generate([op |-> "generateBox", args |-> <<size, tex>>], mesh, UsedMeshFilter(mesh))

\* generateSphere(radius, enableTextureCoordinate) with the arguments drawn from the
\* given sets
CallGenerateSphere(radii, textureOptions) ==
    \E radius \in radii, tex \in textureOptions :
        LET mesh == generateSphere(this, radius, tex)
        IN Generate([op |-> "generateSphere", args |-> <<radius, tex>>], mesh,
                    UsedMeshFilter(mesh))

\* (radius, height) arguments
RadiusHeight == {<<2, 2>>, <<-1, 2>>, <<2, -1>>}

\* (radius, innerRadius) arguments of generateDisc
DiscArgs == {<<2, 1>>, <<2, 0>>, <<2, -1>>, <<1, 1>>, <<1, 2>>}

\* (radius, crossSectionRadius) arguments of generateTorus
TorusRadii == {<<2, 1>>, <<-1, 1>>, <<2, -1>>}

\* (beginAngle, endAngle) arguments of generateTorus, in quarter turns
TorusAngles == {<<0, 4>>, <<0, 2>>, <<1, 3>>, <<1, 4>>}

\* (cylinderRadius, cylinderHeight, coneRadius, coneHeight) arguments of generateArrow
ArrowArgs == {<<1, 2, 2, 1>>, <<-1, 2, 2, 1>>, <<1, 2, -1, 1>>, <<1, -1, 2, -1>>}

CallGenerateCylinder(dimensions, textureOptions) ==
    \E rh \in dimensions, bottom \in BOOLEAN, top \in BOOLEAN, side \in BOOLEAN,
       tex \in textureOptions :
        LET mesh == generateCylinder(this, rh[1], rh[2], bottom, top, side, tex)
        IN Generate([op |-> "generateCylinder",
                     args |-> <<rh[1], rh[2], bottom, top, side, tex>>],
                    mesh, UsedMeshFilter(mesh))

CallGenerateCone(dimensions, textureOptions) ==
    \E rh \in dimensions, bottom \in BOOLEAN, side \in BOOLEAN, tex \in textureOptions :
        LET mesh == generateCone(this, rh[1], rh[2], bottom, side, tex)
        IN Generate([op |-> "generateCone", args |-> <<rh[1], rh[2], bottom, side, tex>>],
                    mesh, UsedMeshFilter(mesh))

CallGenerateCapsule ==
    \E rh \in RadiusHeight :
        LET mesh == generateCapsule(this, rh[1], rh[2])
        IN Generate([op |-> "generateCapsule", args |-> <<rh[1], rh[2]>>],
                    mesh, UsedMeshFilter(mesh))

CallGenerateDisc ==
    \E a \in DiscArgs :
        LET mesh == generateDisc(this, a[1], a[2])
        IN Generate([op |-> "generateDisc", args |-> <<a[1], a[2]>>], mesh, FALSE)

CallGenerateTorus ==
    \E r \in TorusRadii, a \in TorusAngles :
        LET mesh == generateTorus(this, r[1], r[2], a[1], a[2])
        IN Generate([op |-> "generateTorus", args |-> <<r[1], r[2], a[1], a[2]>>],
                    mesh, UsedMeshFilter(mesh))

\* generateArrow with the "setDivisionNumber(12)" in front of the shaft in force
CallGenerateArrow_shaftDivision ==
    \E a \in ArrowArgs :
        LET shaft == [this EXCEPT !.divisionNumber_ = 12]
            cone == generateCone(this, a[3], a[4], TRUE, TRUE, FALSE)
            cylinder == generateCylinder(shaft, a[1], a[2], TRUE, FALSE, TRUE, FALSE)
            mesh == updateBoundingBox(this, MeshExtractor_integrate(cone, a[2] + a[4], cylinder))
            c == [op |-> "generateArrow", args |-> a]
        IN /\ call' = c
           /\ result' = mesh
           /\ repeated' = (c = call)
           /\ meshFilter' = (meshFilter \/ UsedMeshFilter(cone) \/ UsedMeshFilter(cylinder))
           /\ divisionNumber_' = 12
           /\ UNCHANGED <<isNormalGenerationEnabled_, isBoundingBoxUpdateEnabled_>>

CallGenerateArrow ==
    \E a \in ArrowArgs :
        LET mesh == generateArrow(this, a[1], a[2], a[3], a[4])
        IN Generate([op |-> "generateArrow", args |-> a], mesh,
                    \/ UsedMeshFilter(generateCone(this, a[3], a[4], TRUE, TRUE, FALSE))
                    \/ UsedMeshFilter(generateCylinder(this, a[1], a[2], TRUE, FALSE, TRUE, FALSE)))

(***************************************************************************)
(* Extrusion and ElevationGrid descriptors handed to the generator         *)
(***************************************************************************)
MaxGrid == 3

\* spines: none; one point; two points; two equal points; a bend; a there-and-back
\* spine (closed, 2 effective points); a closed triangle
Spines ==
    { <<>>,
      << <<0,0,0>> >>,
      << <<0,0,0>>, <<0,1,0>> >>,
      << <<0,0,0>>, <<0,0,0>> >>,
      << <<0,0,0>>, <<0,1,0>>, <<1,1,0>> >>,
      << <<0,0,0>>, <<0,1,0>>, <<0,0,0>> >>,
      << <<0,0,0>>, <<1,0,0>>, <<0,1,0>>, <<0,0,0>> >> }

\* cross-sections: none; one point; a segment; two equal points; an open angle; a
\* there-and-back contour (closed, 2 effective points); a closed triangle; a closed
\* square
CrossSections ==
    { <<>>,
      << <<1,1>> >>,
      << <<1,1>>, <<-1,1>> >>,
      << <<1,1>>, <<1,1>> >>,
      << <<1,1>>, <<-1,1>>, <<-1,-1>> >>,
      << <<1,1>>, <<-1,1>>, <<1,1>> >>,
      << <<1,1>>, <<-1,1>>, <<-1,-1>>, <<1,1>> >>,
      << <<1,1>>, <<-1,1>>, <<-1,-1>>, <<1,-1>>, <<1,1>> >> }

Extrusion(crossSection, spine, beginCap, endCap) ==
    [crossSection |-> crossSection, spine |-> spine, scale |-> <<>>, orientation |-> <<>>,
     creaseAngle |-> 0, beginCap |-> beginCap, endCap |-> endCap]

Extrusions ==
    { Extrusion(c, sp, b, e) : c \in CrossSections, sp \in Spines, b \in BOOLEAN, e \in BOOLEAN }

\* the extrusions tried next to the primitives: a capped square prism and a closed
\* triangular ring
FewExtrusions ==
    { Extrusion(<< <<1,1>>, <<-1,1>>, <<-1,-1>>, <<1,-1>>, <<1,1>> >>,
                << <<0,0,0>>, <<0,1,0>> >>, TRUE, TRUE),
      Extrusion(<< <<1,1>>, <<-1,1>>, <<-1,-1>> >>,
                << <<0,0,0>>, <<1,0,0>>, <<0,1,0>>, <<0,0,0>> >>, TRUE, FALSE) }

ElevationGrid(xDimension, zDimension, n, ccw) ==
    [xDimension |-> xDimension, zDimension |-> zDimension, xSpacing |-> 1, zSpacing |-> 2,
     height |-> [k \in 1 .. n |-> k], ccw |-> ccw, creaseAngle |-> 1]

ElevationGrids ==
    { ElevationGrid(x, z, x * z + extra, ccw) :
        x \in 0 .. MaxGrid, z \in 0 .. MaxGrid, extra \in {0, 1}, ccw \in BOOLEAN }

\* the grids tried next to the primitives: a cell with the crease angle PI / 2, the
\* same cell with the crease angle 0, and a grid whose height array is too short
FewElevationGrids ==
    { ElevationGrid(2, 2, 4, TRUE),
      [ElevationGrid(2, 2, 4, TRUE) EXCEPT !.creaseAngle = 0],
      ElevationGrid(2, 2, 3, FALSE) }

\* TRUE when generateExtrusion returns before it places any vertex
ExtrusionIsRejected(e) ==
    \/ Len(e.spine) < 2
    \/ Len(e.crossSection) < 2
    \/ EffectiveSpineSize(e) < 2
    \/ EffectiveCrossSectionSize(e) < 2

\* the outcomes of the reads behind the arrays that a call with descriptor e makes
OutcomesOfReads(e) ==
    IF ~ExtrusionIsRejected(e) /\ ReadsBeyond(e) THEN Beyond ELSE {NoValue}

CallGenerateExtrusion(descriptors) ==
    \E e \in descriptors, tex \in BOOLEAN :
        \E beyond \in OutcomesOfReads(e) :
            LET mesh == generateExtrusion(this, e, tex, beyond)
            IN Generate([op |-> "generateExtrusion", args |-> <<e, tex>>], mesh,
                        UsedMeshFilter(mesh))

\* generateExtrusionLineSet(extrusion, mesh) on the mesh that generateExtrusion has
\* just returned for the same descriptor
CallGenerateExtrusionLineSet ==
    /\ call.op = "generateExtrusion"
    /\ result # Null
    /\ Generate([op |-> "generateExtrusionLineSet", args |-> <<call.args[1], result>>],
                generateExtrusionLineSet(call.args[1], result), FALSE)

\* the names of the generator functions that return an SgMesh
MeshOps ==
    {"generateBox", "generateSphere", "generateCylinder", "generateCone", "generateCapsule",
     "generateDisc", "generateTorus", "generateArrow", "generateExtrusion",
     "generateElevationGrid"}

\* the uri of the mesh handed to the writer: none (a generated mesh) or that of the
\* file a mesh was loaded from
Uris == {"", "model.stl"}

\* StdSceneWriter::Impl::writeGeometry on the mesh the generator has just returned
CallWriteGeometry ==
    /\ call.op \in MeshOps
    /\ \E uri \in Uris, doEmbedAllMeshes \in BOOLEAN :
          Generate([op |-> "writeGeometry", args |-> <<result, uri, doEmbedAllMeshes>>],
                   writeGeometry(result, uri, doEmbedAllMeshes), FALSE)

CallGenerateElevationGrid(descriptors) ==
    \E grid \in descriptors, tex \in BOOLEAN :
        LET mesh == generateElevationGrid(this, grid, tex)
        IN Generate([op |-> "generateElevationGrid", args |-> <<grid, tex>>], mesh,
                    UsedMeshFilter(mesh))

Init ==
    /\ isNormalGenerationEnabled_ = TRUE
    /\ isBoundingBoxUpdateEnabled_ = TRUE
    /\ meshFilter = FALSE
    /\ divisionNumber_ = defaultDivisionNumber
    /\ call = [op |-> "MeshGenerator", args |-> <<>>]
    /\ result = NoValue
    /\ repeated = FALSE

Next ==
    \/ setDivisionNumber
    \/ setNormalGenerationEnabled
    \/ enableNormalGeneration
    \/ setBoundingBoxUpdateEnabled
    \/ CallGenerateBox
    \/ CallGenerateSphere(Dims, {FALSE})
    \/ CallGenerateCylinder(RadiusHeight, {FALSE})
    \/ CallGenerateCone(RadiusHeight, {FALSE})
    \/ CallGenerateCapsule
    \/ CallGenerateDisc
    \/ CallGenerateTorus
    \/ CallGenerateArrow
    \/ CallGenerateExtrusion(FewExtrusions)
    \/ CallGenerateElevationGrid(FewElevationGrids)

Spec == Init /\ [][Next]_vars

\* a generator in its constructed configuration, used for extrusions only, resp.
\* for elevation grids only
NextExtrusion ==
    \/ CallGenerateExtrusion(Extrusions)

SpecExtrusion == Init /\ [][NextExtrusion]_vars

\* spines with more than 2 effective points, for the frames of the sweep: a straight
\* one; straight then a bend; a bend then straight; straight, a bend, straight; an
\* S-curve; a bend, a straight run, a bend the other way and a straight end; a
\* spine leaving its plane; a closed square; a closed spine on one line
FrameSpines ==
    { << <<0,0,0>>, <<0,1,0>>, <<0,2,0>> >>,
      << <<0,0,0>>, <<0,1,0>>, <<0,2,0>>, <<1,2,0>> >>,
      << <<0,0,0>>, <<1,0,0>>, <<1,1,0>>, <<1,2,0>> >>,
      << <<0,0,0>>, <<0,1,0>>, <<0,2,0>>, <<1,2,0>>, <<2,2,0>> >>,
      << <<0,0,0>>, <<1,0,0>>, <<1,1,0>>, <<2,1,0>> >>,
      << <<0,0,0>>, <<1,0,0>>, <<1,1,0>>, <<1,2,0>>, <<2,2,0>>, <<3,2,0>> >>,
      << <<0,0,0>>, <<1,0,0>>, <<1,1,0>>, <<1,1,1>> >>,
      << <<0,0,0>>, <<1,0,0>>, <<1,1,0>>, <<0,1,0>>, <<0,0,0>> >>,
      << <<0,0,0>>, <<1,0,0>>, <<2,0,0>>, <<0,0,0>> >> }

FrameExtrusions ==
    { Extrusion(c, sp, b, e) :
        c \in { << <<1,1>>, <<-1,1>>, <<-1,-1>> >>,
                << <<1,1>>, <<-1,1>>, <<-1,-1>>, <<1,-1>>, <<1,1>> >> },
        sp \in FrameSpines, b \in BOOLEAN, e \in BOOLEAN }

NextFrames ==
    \/ CallGenerateExtrusion(FrameExtrusions)

SpecFrames == Init /\ [][NextFrames]_vars

\* extrusions with 0 to MaxEntries scale and orientation entries, along a
\* 2-point spine, a bend of 3 points and a closed square of 4 effective points
\* (orientation angles in quarter turns about the Y axis)
MaxEntries == 4

ScaleEntries(n) == [k \in 1 .. n |-> <<k + 1, k + 2>>]

OrientationEntries(n) == [k \in 1 .. n |-> <<k, <<0, 1, 0>>>>]

ScaledExtrusions ==
    { [Extrusion(<< <<1,1>>, <<-1,1>>, <<-1,-1>> >>, sp, FALSE, FALSE)
         EXCEPT !.scale = ScaleEntries(ns), !.orientation = OrientationEntries(no)] :
        sp \in { << <<0,0,0>>, <<0,1,0>> >>,
                 << <<0,0,0>>, <<0,1,0>>, <<1,1,0>> >>,
                 << <<0,0,0>>, <<1,0,0>>, <<1,1,0>>, <<0,1,0>>, <<0,0,0>> >> },
        ns \in 0 .. MaxEntries, no \in 0 .. MaxEntries }

NextScale ==
    \/ CallGenerateExtrusion(ScaledExtrusions)

SpecScale == Init /\ [][NextScale]_vars

\* cross-sections for the texture coordinates of the caps, all with a non-zero
\* extent in both directions: triangles and rectangles, open and closed, around
\* the origin and away from it
CapCrossSections ==
    { << <<1,1>>, <<-1,1>>, <<-1,-1>> >>,
      << <<1,1>>, <<-1,1>>, <<-1,-1>>, <<1,-1>>, <<1,1>> >>,
      << <<0,0>>, <<2,0>>, <<2,3>>, <<0,3>>, <<0,0>> >>,
      << <<1,2>>, <<3,2>>, <<3,5>>, <<1,5>> >>,
      << <<-2,-1>>, <<0,-1>>, <<0,1>> >>,
      << <<5,0>>, <<6,3>>, <<5,1>> >>,
      << <<5,0>>, <<6,0>>, <<6,1>>, <<5,1>> >> }

CappedExtrusions ==
    { Extrusion(c, sp, b, e) :
        c \in CapCrossSections,
        sp \in { << <<0,0,0>>, <<0,1,0>> >>, << <<0,0,0>>, <<0,1,0>>, <<1,1,0>> >> },
        b \in BOOLEAN, e \in BOOLEAN }

NextCapTexture ==
    \/ CallGenerateExtrusion(CappedExtrusions)

SpecCapTexture == Init /\ [][NextCapTexture]_vars

\* extrusions for the line set: cross-sections of 3 to 5 points and spines of 2 to
\* 5 points, open and closed
LineSetExtrusions ==
    { Extrusion(c, sp, b, e) :
        c \in { << <<1,1>>, <<-1,1>>, <<-1,-1>> >>,
                << <<1,1>>, <<-1,1>>, <<-1,-1>>, <<1,-1>> >>,
                << <<1,1>>, <<-1,1>>, <<-1,-1>>, <<1,1>> >>,
                << <<1,1>>, <<-1,1>>, <<-1,-1>>, <<1,-1>>, <<1,1>> >> },
        sp \in { << <<0,0,0>>, <<0,1,0>> >>,
                 << <<0,0,0>>, <<0,1,0>>, <<1,1,0>> >>,
                 << <<0,0,0>>, <<1,0,0>>, <<0,1,0>>, <<0,0,0>> >>,
                 << <<0,0,0>>, <<1,0,0>>, <<1,1,0>>, <<0,1,0>>, <<0,0,0>> >> },
        b \in BOOLEAN, e \in BOOLEAN }

NextLineSet ==
    \/ CallGenerateExtrusion(LineSetExtrusions)
    \/ CallGenerateExtrusionLineSet

SpecLineSet == Init /\ [][NextLineSet]_vars

\* the meshes handed to the scene writer: the five primitives, extrusions, and
\* grids without a sample, with one sample and with one cell
WrittenGrids == {ElevationGrid(0, 0, 0, TRUE), ElevationGrid(1, 1, 1, TRUE), ElevationGrid(2, 2, 4, TRUE)}

NextWriter ==
    \/ CallGenerateBox
    \/ CallGenerateSphere(Dims, {FALSE})
    \/ CallGenerateCylinder(RadiusHeight, {FALSE})
    \/ CallGenerateCone(RadiusHeight, {FALSE})
    \/ CallGenerateCapsule
    \/ CallGenerateExtrusion(FewExtrusions)
    \/ CallGenerateElevationGrid(WrittenGrids)
    \/ CallWriteGeometry

SpecWriter == Init /\ [][NextWriter]_vars

\* a generator used with texture coordinates: the division number is set and the
\* shapes that have a texture-coordinate builder are generated
TexturedRadii == {0, 2}

\* (radius, height) arguments: a solid and a flat one
TexturedRadiusHeight == {<<2, 2>>, <<2, 0>>}

\* open and closed spines swept with open and closed cross-sections, every
\* combination of caps
TexturedExtrusions ==
    { Extrusion(c, sp, b, e) :
        c \in { << <<1,1>>, <<-1,1>>, <<-1,-1>> >>,
                << <<1,1>>, <<-1,1>>, <<-1,-1>>, <<1,-1>>, <<1,1>> >> },
        sp \in { << <<0,0,0>>, <<0,1,0>> >>,
                 << <<0,0,0>>, <<1,0,0>>, <<0,1,0>>, <<0,0,0>> >> },
        b \in BOOLEAN, e \in BOOLEAN }

NextTexture ==
    \/ setDivisionNumber
    \/ CallGenerateBox
    \/ CallGenerateSphere(TexturedRadii, {TRUE})
    \/ CallGenerateCylinder(TexturedRadiusHeight, {TRUE})
    \/ CallGenerateCone(TexturedRadiusHeight, {TRUE})
    \/ CallGenerateExtrusion(TexturedExtrusions)
    \/ CallGenerateElevationGrid(FewElevationGrids)

SpecTexture == Init /\ [][NextTexture]_vars

NextElevationGrid ==
    \/ setBoundingBoxUpdateEnabled
    \/ CallGenerateElevationGrid(ElevationGrids)

SpecElevationGrid == Init /\ [][NextElevationGrid]_vars

(***************************************************************************)
(* Properties                                                              *)
(***************************************************************************)
IsMesh(r) == r # Null /\ r # NoValue /\ r # Fault

GeneratorOps ==
    {"generateBox", "generateSphere", "generateCylinder", "generateCone", "generateCapsule",
     "generateDisc", "generateTorus", "generateArrow", "generateExtrusion",
     "generateElevationGrid"}

\* C1: whenever a generator returns a mesh, every vertex index in its triangle list
\* is >= 0 and < the number of vertices of the mesh.
C1_TriangleIndicesInBounds ==
    (call.op \in GeneratorOps /\ IsMesh(result)) =>
        \A k \in 1 .. Len(result.triangles) : \A c \in 1 .. 3 :
            /\ result.triangles[k][c] >= 0
            /\ result.triangles[k][c] < Len(result.vertices)

\* C2: whenever a generator returns a mesh, the mesh has at least one triangle.
C2_AtLeastOneTriangle ==
    (call.op \in GeneratorOps /\ IsMesh(result)) => Len(result.triangles) >= 1

\* the call was given a negative size, radius or height
HasNegativeDimension(c) ==
    CASE c.op = "generateBox" -> \E k \in 1 .. 3 : c.args[1][k] < 0
      [] c.op = "generateSphere" -> c.args[1] < 0
      [] c.op \in {"generateCylinder", "generateCone", "generateCapsule", "generateDisc",
                   "generateTorus"} -> c.args[1] < 0 \/ c.args[2] < 0
      [] c.op = "generateArrow" -> \E k \in 1 .. 4 : c.args[k] < 0
      [] OTHER -> FALSE

\* C3: a generator that takes a size, radius or height returns null when any of
\* them is negative.
C3_NegativeDimensionYieldsNull ==
    HasNegativeDimension(call) => result = Null

\* C4: with divisionNumber < 4, every curved-solid generator returns null.
C4_LowResolutionYieldsNull ==
    (/\ call.op \in {"generateSphere", "generateCylinder", "generateCone",
                     "generateCapsule", "generateTorus"}
     /\ divisionNumber_ < 4) => result = Null

\* C5: right after setDivisionNumber(n), divisionNumber() is 20 when n is negative
\* and n otherwise; it is 20 in a new generator, whose normal generation and
\* bounding-box update are both enabled; it is never negative.
C5_DivisionNumberSetting ==
    /\ divisionNumber_ >= 0
    /\ call.op = "setDivisionNumber" =>
          divisionNumber_ = (IF call.args[1] < 0 THEN 20 ELSE call.args[1])
    /\ call.op = "MeshGenerator" =>
          /\ divisionNumber_ = 20
          /\ isNormalGenerationEnabled_
          /\ isBoundingBoxUpdateEnabled_

\* setDivisionNumber(-1) on a generator that has been used brought back the default
C5_Witness ==
    /\ call = [op |-> "setDivisionNumber", args |-> <<-1>>]
    /\ meshFilter
    /\ divisionNumber_ = 20

SameOutcome(a, b) ==
    \/ a = Null /\ b = Null
    \/ /\ IsMesh(a) /\ IsMesh(b)
       /\ a.vertices = b.vertices
       /\ a.triangles = b.triangles
       /\ a.hasTexCoords = b.hasTexCoords
       /\ a.texCoordIndices = b.texCoordIndices

C7_SphereCounts ==
    (call.op = "generateSphere" /\ divisionNumber_ >= 4 /\ call.args[1] >= 0) =>
        /\ IsMesh(result)
        /\ Len(result.vertices) = ((divisionNumber_ \div 2) - 1) * divisionNumber_ + 2
        /\ Len(result.triangles) = ((divisionNumber_ \div 2) - 1) * divisionNumber_ * 2

\* a sphere of odd division number 5: 7 vertices, 10 triangles
C7_Witness ==
    /\ call.op = "generateSphere"
    /\ divisionNumber_ = 5
    /\ IsMesh(result)
    /\ Len(result.vertices) = 7

\* C8: generateDisc returns null exactly when innerRadius <= 0 or radius <=
\* innerRadius; otherwise the mesh has 2*divisionNumber vertices, one normal, and a
\* normal index 0 for each of the 3 corners of every triangle.
C8_Disc ==
    call.op = "generateDisc" =>
        LET radius == call.args[1]
            innerRadius == call.args[2]
        IN /\ (result = Null) <=> (innerRadius <= 0 \/ radius <= innerRadius)
           /\ IsMesh(result) =>
                /\ Len(result.vertices) = 2 * divisionNumber_
                /\ Len(result.normals) = 1
                /\ Len(result.normalIndices) = 3 * Len(result.triangles)
                /\ \A k \in 1 .. Len(result.normalIndices) : result.normalIndices[k] = 0

\* an annulus of division number 3: 6 triangles, 18 normal indices
C8_Witness ==
    /\ call.op = "generateDisc"
    /\ IsMesh(result)
    /\ divisionNumber_ = 3
    /\ Len(result.normalIndices) = 18

\* a point list whose first and last point coincide, and its length without the
\* repeated last point
Loops(points) == Len(points) >= 1 /\ points[1] = points[Len(points)]
EffectiveLength(points) == IF Loops(points) THEN Len(points) - 1 ELSE Len(points)

\* C9: generateExtrusion returns null exactly when the spine or the cross-section
\* has fewer than 2 points, or fewer than 2 once the repeated last point of a closed
\* one is dropped; otherwise the mesh has (effective spine points) * (effective
\* cross-section points) vertices.
C9_ExtrusionNullOrVertexCount ==
    call.op = "generateExtrusion" =>
        LET spine == call.args[1].spine
            crossSection == call.args[1].crossSection
            tooFew == \/ Len(spine) < 2
                      \/ Len(crossSection) < 2
                      \/ EffectiveLength(spine) < 2
                      \/ EffectiveLength(crossSection) < 2
        IN /\ (result = Null) <=> tooFew
           /\ ~tooFew =>
                /\ IsMesh(result)
                /\ Len(result.vertices) = EffectiveLength(spine) * EffectiveLength(crossSection)

\* a closed triangular spine swept with a closed square: 3 * 4 vertices
C9_Witness ==
    /\ call.op = "generateExtrusion"
    /\ IsMesh(result)
    /\ Loops(call.args[1].spine)
    /\ Loops(call.args[1].crossSection)
    /\ Len(result.vertices) = 12

\* the spine ring (0-based) a vertex index belongs to, for rings of C vertices
RingOf(v, C) == v \div C

\* C10: with S effective spine points and C effective cross-section points, the
\* triangle list starts with bands * per * 2 side triangles, where bands is S - 1
\* for an open spine and S for a closed one, and per is C for a closed cross-section
\* and C - 1 for an open one; each side triangle joins two consecutive rings.  On an
\* open spine each enabled cap then adds exactly C - 2 triangles, the begin cap
\* within the first ring and the end cap within the last.
C10_ExtrusionTriangleCounts ==
    (call.op = "generateExtrusion" /\ IsMesh(result)) =>
        LET e == call.args[1]
            S == EffectiveLength(e.spine)
            C == EffectiveLength(e.crossSection)
            bands == IF Loops(e.spine) THEN S ELSE S - 1
            per == IF Loops(e.crossSection) THEN C ELSE C - 1
            nSide == bands * per * 2
            nBegin == IF e.beginCap /\ ~Loops(e.spine) THEN C - 2 ELSE 0
            nEnd == IF e.endCap /\ ~Loops(e.spine) THEN C - 2 ELSE 0
            T == result.triangles
            rings(t) == {RingOf(T[t][c], C) : c \in 1 .. 3}
        IN /\ Len(T) >= nSide
           /\ \A t \in 1 .. nSide :
                LET band == (t - 1) \div (2 * per)
                IN rings(t) = {band, (band + 1) % S}
           /\ ~Loops(e.spine) =>
                /\ Len(T) = nSide + nBegin + nEnd
                /\ \A t \in nSide + 1 .. nSide + nBegin : rings(t) = {0}
                /\ \A t \in nSide + nBegin + 1 .. Len(T) : rings(t) = {S - 1}

\* a 2-point spine swept with a closed square and both caps: 8 side triangles and
\* 2 + 2 cap triangles
C10_Witness ==
    /\ call.op = "generateExtrusion"
    /\ IsMesh(result)
    /\ ~Loops(call.args[1].spine)
    /\ Loops(call.args[1].crossSection)
    /\ EffectiveLength(call.args[1].crossSection) = 4
    /\ call.args[1].beginCap /\ call.args[1].endCap
    /\ Len(result.triangles) = 12

\* the three sides of triangle k of a mesh, as <<from, to>> pairs
Sides(mesh, k) ==
    LET t == mesh.triangles[k]
    IN { <<t[1], t[2]>>, <<t[2], t[3]>>, <<t[3], t[1]>> }

\* the triangles of a mesh that have the undirected edge {a, b} as a side
TrianglesOnEdge(mesh, a, b) ==
    { k \in 1 .. Len(mesh.triangles) :
        \E e \in Sides(mesh, k) : {e[1], e[2]} = {a, b} }

\* every triangle has three distinct corners and every edge belongs to exactly two
\* triangles
IsClosedSurface(mesh) ==
    \A k \in 1 .. Len(mesh.triangles) :
        /\ Cardinality(Sides(mesh, k)) = 3
        /\ \A e \in Sides(mesh, k) :
              /\ e[1] # e[2]
              /\ Cardinality(TrianglesOnEdge(mesh, e[1], e[2])) = 2

\* C11: generateTorus with beginAngle = 0, endAngle = 2 pi and divisionNumber >= 4
\* returns a closed surface: every undirected edge is shared by exactly two
\* triangles.
C11_FullTorusIsClosed ==
    (/\ call.op = "generateTorus"
     /\ call.args[3] = 0 /\ call.args[4] = 4
     /\ divisionNumber_ >= 4
     /\ IsMesh(result)) => IsClosedSurface(result)

\* the longitudinal ring (0-based) of a torus vertex, for rings of theta vertices
TorusRingOf(v, theta) == v \div theta

\* C12: for a partial sweep (beginAngle > 0 or endAngle < 2 pi) generateTorus lays
\* one ring more than the division count and no triangle joins the last ring to the
\* first.
C12_PartialTorusIsOpen ==
    (/\ call.op = "generateTorus"
     /\ (call.args[3] > 0 \/ call.args[4] < 4)
     /\ divisionNumber_ >= 4
     /\ IsMesh(result)) =>
        LET theta == divisionNumber_ \div 4
            rings == PhiDivisionNumber(divisionNumber_, call.args[4]) + 1
        IN /\ Len(result.vertices) = rings * theta
           /\ rings >= 3 =>
                \A k \in 1 .. Len(result.triangles) :
                    ~ \E c1, c2 \in 1 .. 3 :
                        /\ TorusRingOf(result.triangles[k][c1], theta) = 0
                        /\ TorusRingOf(result.triangles[k][c2], theta) = rings - 1

\* C13: generateElevationGrid returns null exactly when xDimension * zDimension is
\* not the length of the height array; otherwise, for xDimension >= 1 and
\* zDimension >= 1, vertex z * xDimension + x is the lattice point (x, z) with the
\* height sample of that position, and there are 2 (xDimension - 1)(zDimension - 1)
\* triangles.
C13_ElevationGrid ==
    call.op = "generateElevationGrid" =>
        LET grid == call.args[1]
            xd == grid.xDimension
            zd == grid.zDimension
        IN /\ (result = Null) <=> (xd * zd # Len(grid.height))
           /\ (IsMesh(result) /\ xd >= 1 /\ zd >= 1) =>
                /\ Len(result.vertices) = xd * zd
                /\ \A z \in 0 .. zd - 1 : \A x \in 0 .. xd - 1 :
                      result.vertices[z * xd + x + 1] =
                          [form |-> "xyz", x |-> x * grid.xSpacing,
                           y |-> grid.height[z * xd + x + 1], z |-> z * grid.zSpacing]
                /\ Len(result.triangles) = 2 * (xd - 1) * (zd - 1)

\* a 2 x 2 grid: 4 vertices, one cell of 2 triangles
C13_Witness ==
    /\ call.op = "generateElevationGrid"
    /\ IsMesh(result)
    /\ call.args[1].xDimension = 2 /\ call.args[1].zDimension = 2
    /\ Len(result.vertices) = 4
    /\ Len(result.triangles) = 2

\* the generators that take the enableTextureCoordinate flag, which is the last
\* argument of the call
TexturedOps ==
    {"generateBox", "generateSphere", "generateCylinder", "generateCone",
     "generateExtrusion", "generateElevationGrid"}

TextureWasRequested(c) == c.op \in TexturedOps /\ c.args[Len(c.args)]

\* C14: a mesh generated with texture coordinates enabled has exactly three
\* texture-coordinate indices per triangle.
C14_TexCoordIndexCount ==
    (TextureWasRequested(call) /\ IsMesh(result)) =>
        /\ result.hasTexCoords
        /\ Len(result.texCoordIndices) = 3 * Len(result.triangles)

\* a closed spine swept with a closed cross-section, and an open spine with both
\* caps, carry three texture indices per triangle
C14_Witness ==
    /\ TextureWasRequested(call)
    /\ call.op = "generateExtrusion"
    /\ IsMesh(result)
    /\ Loops(call.args[1].crossSection)
    /\ ~Loops(call.args[1].spine)
    /\ call.args[1].beginCap /\ call.args[1].endCap
    /\ Len(result.triangles) = 12
    /\ Len(result.texCoordIndices) = 36

\* C15: every texture-coordinate index is >= 0 and < the number of texture
\* coordinates; in a sphere, cylinder or cone each index is that of a point met
\* before or of the point appended for it, and every point appended is referred to;
\* in an extrusion the side indices lie in the block of the side
\* coordinates, the begin-cap indices in the block added for the begin cap and the
\* end-cap indices in the block added for the end cap.
C15_TexCoordIndicesInBounds ==
    (TextureWasRequested(call) /\ IsMesh(result)) =>
        /\ \A k \in 1 .. Len(result.texCoordIndices) :
              /\ result.texCoordIndices[k] >= 0
              /\ result.texCoordIndices[k] < Len(result.texCoords)
        /\ call.op \in {"generateSphere", "generateCylinder", "generateCone"} =>
              LET idx == result.texCoordIndices
                  \* the cylinder and the cone start with the centre point, index 0
                  given == IF call.op = "generateSphere" THEN {} ELSE {0}
                  appendedBefore(k) == {idx[m] : m \in 1 .. k - 1} \ given
                  justAppended(k) == Cardinality(given) + Cardinality(appendedBefore(k))
              IN /\ \A k \in 1 .. Len(idx) :
                       idx[k] \in given \cup appendedBefore(k) \cup {justAppended(k)}
                 /\ Len(result.texCoords) = justAppended(Len(idx) + 1)
        /\ call.op = "generateExtrusion" =>
              LET e == call.args[1]
                  C == Len(e.crossSection)
                  nSideCoords == Len(e.spine) * C
                  nSide == 6 * (Len(e.spine) - 1) * (C - 1)
                  capped(flag) == flag /\ ~Loops(e.spine) /\ EffectiveLength(e.crossSection) > 2
                  nBegin == IF capped(e.beginCap)
                            THEN 3 * (EffectiveLength(e.crossSection) - 2) ELSE 0
                  beginBlock == IF capped(e.beginCap) THEN C ELSE 0
                  idx == result.texCoordIndices
              IN /\ \A k \in 1 .. nSide : idx[k] < nSideCoords
                 /\ \A k \in nSide + 1 .. nSide + nBegin :
                       idx[k] >= nSideCoords /\ idx[k] < nSideCoords + C
                 /\ \A k \in nSide + nBegin + 1 .. Len(idx) :
                       /\ idx[k] >= nSideCoords + beginBlock
                       /\ idx[k] < nSideCoords + beginBlock + C

\* a textured cylinder in which a texture point was found again (fewer points than
\* indices) and in which the last point appended is referred to
C15_Witness ==
    /\ TextureWasRequested(call)
    /\ call.op = "generateCylinder"
    /\ IsMesh(result)
    /\ Len(result.triangles) >= 8
    /\ Len(result.texCoords) < Len(result.texCoordIndices)
    /\ \E k \in 1 .. Len(result.texCoordIndices) :
          result.texCoordIndices[k] = Len(result.texCoords) - 1

\* what was done to a mesh after its vertices and triangles were filled, in order
StepNames(mesh) == [k \in 1 .. Len(mesh.steps) |-> mesh.steps[k][1]]

AllStepsEnabled ==
    /\ TextureWasRequested(call)
    /\ IsMesh(result)
    /\ isNormalGenerationEnabled_
    /\ isBoundingBoxUpdateEnabled_

\* C16 as stated: with normal generation, texture coordinates and bounding-box
\* update all enabled, a successful call runs the Normal Generator, then the
\* texture-coordinate builder, then the bounding-box update, in every generator.
C16_StepOrder_asStated ==
    AllStepsEnabled =>
        StepNames(result) = <<"generateNormals", "texCoords", "updateBoundingBox">>

\* C16: with normal generation, texture coordinates and bounding-box update all
\* enabled, a successful call of generateElevationGrid runs the Normal Generator,
\* then the texture-coordinate builder, then the bounding-box update; a successful
\* call of generateBox, generateSphere, generateCylinder, generateCone or
\* generateExtrusion updates the bounding box first, then runs the Normal Generator,
\* then the texture-coordinate builder.
C16_StepOrder ==
    AllStepsEnabled =>
        StepNames(result) =
            IF call.op = "generateElevationGrid"
            THEN <<"generateNormals", "texCoords", "updateBoundingBox">>
            ELSE <<"updateBoundingBox", "generateNormals", "texCoords">>

\* a textured box was generated with everything enabled: its bounding box was
\* updated before its normals were generated
C16_Witness ==
    /\ AllStepsEnabled
    /\ call.op = "generateBox"
    /\ StepNames(result) = <<"updateBoundingBox", "generateNormals", "texCoords">>

\* the crease angles (in quarter turns) with which the Normal Generator ran on a mesh
CreaseAngles(mesh) ==
    LET at == {k \in 1 .. Len(mesh.steps) : mesh.steps[k][1] = "generateNormals"}
    IN [angles |-> {mesh.steps[k][2] : k \in at}, count |-> Cardinality(at)]

Once(angle) == [angles |-> {angle}, count |-> 1]

Never == [angles |-> {}, count |-> 0]

\* C17 as stated: with normal generation enabled a successful call runs the Normal
\* Generator exactly once, with crease angle 0 for box and disc, PI/2 for cylinder,
\* cone, capsule and elevation grid, PI for sphere and torus; with normal generation
\* disabled no call runs it.
C17_CreaseAngles_asStated ==
    (/\ call.op \in {"generateBox", "generateDisc", "generateCylinder", "generateCone",
                     "generateCapsule", "generateElevationGrid", "generateSphere",
                     "generateTorus"}
     /\ IsMesh(result)) =>
        CreaseAngles(result) =
            IF ~isNormalGenerationEnabled_ THEN Never
            ELSE CASE call.op \in {"generateBox", "generateDisc"} -> Once(0)
                   [] call.op \in {"generateSphere", "generateTorus"} -> Once(2)
                   [] OTHER -> Once(1)

\* C17: with normal generation enabled a successful call runs the Normal Generator
\* exactly once on the new mesh, with crease angle 0 for box, PI/2 for cylinder,
\* cone and capsule, PI for sphere and torus, and the crease angle of the descriptor
\* for elevation grid and extrusion; generateDisc never runs it (it writes its one
\* normal itself); with normal generation disabled no call runs it.
C17_CreaseAngles ==
    (call.op \in GeneratorOps \ {"generateArrow"} /\ IsMesh(result)) =>
        CreaseAngles(result) =
            IF ~isNormalGenerationEnabled_ \/ call.op = "generateDisc" THEN Never
            ELSE CASE call.op = "generateBox" -> Once(0)
                   [] call.op \in {"generateCylinder", "generateCone", "generateCapsule"} ->
                          Once(1)
                   [] call.op \in {"generateSphere", "generateTorus"} -> Once(2)
                   [] OTHER -> Once(call.args[1].creaseAngle)

\* an elevation grid with crease angle 0 was generated with normal generation
\* enabled: the Normal Generator ran once, with crease angle 0
C17_Witness ==
    /\ call.op = "generateElevationGrid"
    /\ IsMesh(result)
    /\ isNormalGenerationEnabled_
    /\ call.args[1].creaseAngle = 0
    /\ CreaseAngles(result) = Once(0)

\* all sides of all triangles of a mesh, as directed <<from, to>> edges
DirectedEdges(mesh) == UNION {Sides(mesh, k) : k \in 1 .. Len(mesh.triangles)}

\* every directed edge belongs to exactly one triangle, and its reverse belongs to
\* exactly one (other) triangle
IsConsistentlyOriented(mesh) ==
    LET E == DirectedEdges(mesh)
    IN /\ \A k \in 1 .. Len(mesh.triangles) : Cardinality(Sides(mesh, k)) = 3
       /\ Cardinality(E) = 3 * Len(mesh.triangles)
       /\ \A e \in E : e[1] # e[2] /\ <<e[2], e[1]>> \in E

\* the call asked for a closed solid: a box, a sphere, a capsule, a cylinder with
\* bottom, top and side, or a cone with bottom and side
IsClosedSolidCall(c) ==
    CASE c.op \in {"generateBox", "generateSphere", "generateCapsule"} -> TRUE
      [] c.op = "generateCylinder" -> c.args[3] /\ c.args[4] /\ c.args[5]
      [] c.op = "generateCone" -> c.args[3] /\ c.args[4]
      [] OTHER -> FALSE

\* C18: for divisionNumber >= 4 the closed solids are consistently oriented: each
\* directed edge (a, b) of a triangle occurs in exactly one triangle and the reverse
\* edge (b, a) in exactly one other triangle.
C18_ConsistentOrientation ==
    (IsClosedSolidCall(call) /\ divisionNumber_ >= 4 /\ IsMesh(result)) =>
        IsConsistentlyOriented(result)

\* a capsule at division number 5 (2 rings of 5 vertices and 2 poles: 20 triangles)
C18_Witness ==
    /\ call.op = "generateCapsule"
    /\ divisionNumber_ = 5
    /\ IsMesh(result)
    /\ Len(result.triangles) = 20
    /\ IsConsistentlyOriented(result)

\* the face group of a cylinder triangle, for division number d: "top" when it has
\* the top centre (index 2d) and two top-ring vertices, "bottom" when it has the
\* bottom centre (index 2d + 1) and two bottom-ring vertices, "side" when it has
\* vertices of both rings and no centre
CylinderGroup(t, d) ==
    LET topRing == 0 .. d - 1
        bottomRing == d .. 2 * d - 1
        corners == {t[1], t[2], t[3]}
    IN CASE t[1] = 2 * d /\ t[2] \in topRing /\ t[3] \in topRing -> "top"
         [] t[1] = 2 * d + 1 /\ t[2] \in bottomRing /\ t[3] \in bottomRing -> "bottom"
         [] /\ corners \subseteq topRing \cup bottomRing
            /\ corners \cap topRing # {}
            /\ corners \cap bottomRing # {} -> "side"
         [] OTHER -> "none"

\* C19: generateCylinder at division number d returns 2d + 2 vertices and
\* d * ([top] + 2 [side] + [bottom]) triangles, each a top, side or bottom triangle
\* of an enabled group; its triangle list is the list of the cylinder with all three
\* groups, in the same order, without the triangles of the groups switched off.
C19_CylinderFaceGroups ==
    (call.op = "generateCylinder" /\ IsMesh(result)) =>
        LET d == divisionNumber_
            bottom == call.args[3]
            top == call.args[4]
            side == call.args[5]
            enabled == (IF top THEN {"top"} ELSE {}) \cup (IF side THEN {"side"} ELSE {})
                          \cup (IF bottom THEN {"bottom"} ELSE {})
            IsEnabled(t) == CylinderGroup(t, d) \in enabled
            whole == generateCylinder(this, call.args[1], call.args[2], TRUE, TRUE, TRUE, FALSE)
            T == result.triangles
            count(g) == Cardinality({k \in 1 .. Len(T) : CylinderGroup(T[k], d) = g})
        IN /\ Len(result.vertices) = 2 * d + 2
           /\ Len(T) = d * ((IF top THEN 1 ELSE 0) + (IF side THEN 2 ELSE 0)
                              + (IF bottom THEN 1 ELSE 0))
           /\ \A k \in 1 .. Len(T) : IsEnabled(T[k])
           /\ count("top") = (IF top THEN d ELSE 0)
           /\ count("side") = (IF side THEN 2 * d ELSE 0)
           /\ count("bottom") = (IF bottom THEN d ELSE 0)
           /\ T = SelectSeq(whole.triangles, IsEnabled)

\* a cylinder at division number 5 with its top switched off: 15 of the 20 triangles
C19_Witness ==
    /\ call.op = "generateCylinder"
    /\ IsMesh(result)
    /\ divisionNumber_ = 5
    /\ call.args[3] /\ ~call.args[4] /\ call.args[5]
    /\ Len(result.triangles) = 15

\* C20: generateCapsule at division number d >= 2 lays v rings of d vertices, v
\* being the integer quotient d / 2 made even by adding 1 when it is odd, and
\* returns v * d + 2 vertices and 2 * v * d triangles; the first v / 2 rings are
\* offset by +height / 2 and the other v / 2 rings by -height / 2, and ring v / 2
\* and ring v / 2 + 1 both lie at the latitude angle PI / 2.
C20_CapsuleRings ==
    (call.op = "generateCapsule" /\ IsMesh(result) /\ divisionNumber_ >= 2) =>
        LET d == divisionNumber_
            q == d \div 2
            v == IF q % 2 = 1 THEN q + 1 ELSE q
            height == call.args[2]
            ring(i) == {result.vertices[(i - 1) * d + j] : j \in 1 .. d}
            IsEquator(p) == p.form = "polar" /\ 2 * p.tv[1] = p.tv[2]
        IN /\ Len(result.vertices) = v * d + 2
           /\ Len(result.triangles) = 2 * v * d
           /\ \A i \in 1 .. v \div 2 : \A p \in ring(i) : p.y2 = height
           /\ \A i \in v \div 2 + 1 .. v : \A p \in ring(i) : p.y2 = -height
           /\ \A p \in ring(v \div 2) \cup ring(v \div 2 + 1) : IsEquator(p)

\* a capsule at division number 3: the quotient 1 is made even, 2 rings of 3
\* vertices and 2 poles
C20_Witness ==
    /\ call.op = "generateCapsule"
    /\ IsMesh(result)
    /\ divisionNumber_ = 3
    /\ Len(result.vertices) = 8
    /\ Len(result.triangles) = 12

\* the extrusion call just made returned a mesh swept along more than 2 effective
\* spine points
IsSweptAlongCurve ==
    /\ call.op = "generateExtrusion"
    /\ IsMesh(result)
    /\ EffectiveSpineSize(call.args[1]) > 2

\* the candidate binormal of spine point i of the extrusion just generated, the
\* spine points that have a non-zero one, and the Z axis of the frame the vertices
\* of ring i were placed with (<<>> for the rotation built from the tangent alone)
CandidateOf(i) ==
    CandidateBinormal(call.args[1].spine, EffectiveSpineSize(call.args[1]), SpineIsClosed(call.args[1]), i)

WithCandidate == {i \in 0 .. EffectiveSpineSize(call.args[1]) - 1 : CandidateOf(i) # Zero3}

FrameZaxis(i) == result.vertices[i * EffectiveCrossSectionSize(call.args[1]) + 1].frame[2]

Least(S) == CHOOSE m \in S : \A k \in S : m <= k
Greatest(S) == CHOOSE m \in S : \A k \in S : k <= m

\* C21: with more than 2 effective spine points, if some spine point has a non-zero
\* candidate binormal then every frame has a non-zero Z axis, every frame before the
\* first such point has the Z axis of that point's frame, and every later frame whose
\* own candidate is zero has, up to sign, the most recent non-zero candidate before
\* it; if no spine point has one, every frame is the rotation built from the tangent
C21_FrameZaxes ==
    IsSweptAlongCurve =>
        LET frames == 0 .. EffectiveSpineSize(call.args[1]) - 1
        IN IF WithCandidate = {}
           THEN \A i \in frames : FrameZaxis(i) = <<>>
           ELSE \A i \in frames :
                   /\ FrameZaxis(i) # <<>>
                   /\ FrameZaxis(i) # Zero3
                   /\ i < Least(WithCandidate) => FrameZaxis(i) = FrameZaxis(Least(WithCandidate))
                   /\ (i > Least(WithCandidate) /\ CandidateOf(i) = Zero3) =>
                         LET last == CandidateOf(Greatest({k \in WithCandidate : k < i}))
                         IN FrameZaxis(i) \in {last, Neg3(last)}

\* a spine that starts straight, bends, and goes on straight has been swept
C21_Witness ==
    /\ IsSweptAlongCurve
    /\ WithCandidate # {}
    /\ Least(WithCandidate) > 0
    /\ \E i \in 0 .. EffectiveSpineSize(call.args[1]) - 1 :
          i > Least(WithCandidate) /\ CandidateOf(i) = Zero3 /\ FrameZaxis(i) # Zero3

\* the Z axis frame i has before the sign test: its own candidate, the most recent
\* non-zero candidate, or the first non-zero candidate for the frames before it
UnflippedZaxis(i) ==
    IF i < Least(WithCandidate) THEN CandidateOf(Least(WithCandidate))
    ELSE CandidateOf(Greatest({k \in WithCandidate : k <= i}))

\* C22: when a Z axis was defined, the final Z axis of every frame i >= 1 has a
\* non-negative dot product with the final Z axis of frame i - 1, and frame i is
\* turned round exactly when its dot product with the final frame i - 1 is negative
C22_NoTwistFlip ==
    (IsSweptAlongCurve /\ WithCandidate # {}) =>
        \A i \in 1 .. EffectiveSpineSize(call.args[1]) - 1 :
            /\ Dot(FrameZaxis(i), FrameZaxis(i - 1)) >= 0
            /\ FrameZaxis(i) = IF Dot(UnflippedZaxis(i), FrameZaxis(i - 1)) < 0
                               THEN Neg3(UnflippedZaxis(i))
                               ELSE UnflippedZaxis(i)

\* a frame of an S-shaped spine has been turned round
C22_Witness ==
    /\ IsSweptAlongCurve
    /\ WithCandidate # {}
    /\ \E i \in WithCandidate : i >= 1 /\ FrameZaxis(i) = Neg3(CandidateOf(i))

\* C23: a ring is handed to the Triangulator, and cap triangles are appended, only
\* for a cap whose flag is set on an open spine; with a closed spine no cap triangle
\* is added.  The begin cap is made of the indices 0 .. C-1 of the first ring in the
\* Triangulator's vertex order, the end cap of the indices C*(S-1) .. C*S-1 of the
\* last ring with the second and third vertex of every returned triangle exchanged.
C23_Caps ==
    (call.op = "generateExtrusion" /\ IsMesh(result)) =>
        LET e == call.args[1]
            S == EffectiveLength(e.spine)
            C == EffectiveLength(e.crossSection)
            bands == IF Loops(e.spine) THEN S ELSE S - 1
            per == IF Loops(e.crossSection) THEN C ELSE C - 1
            nSide == bands * per * 2
            returned == Triangulator_apply(C)
            n == Len(returned) \div 3
            first == [k \in 1 .. C |-> k - 1]
            last == [k \in 1 .. C |-> C * (S - 1) + k - 1]
            begin == e.beginCap /\ ~Loops(e.spine)
            end == e.endCap /\ ~Loops(e.spine)
            nBegin == IF begin THEN n ELSE 0
            T == result.triangles
        IN /\ result.polygons = (IF begin THEN <<first>> ELSE <<>>) \o (IF end THEN <<last>> ELSE <<>>)
           /\ Len(T) = nSide + nBegin + (IF end THEN n ELSE 0)
           /\ Loops(e.spine) => (Len(T) = nSide /\ result.polygons = <<>>)
           /\ begin => \A t \in 1 .. n :
                 T[nSide + t] = << first[returned[3 * t - 2] + 1], first[returned[3 * t - 1] + 1],
                                   first[returned[3 * t] + 1] >>
           /\ end => \A t \in 1 .. n :
                 T[nSide + nBegin + t] = << last[returned[3 * t - 2] + 1], last[returned[3 * t] + 1],
                                            last[returned[3 * t - 1] + 1] >>

\* both caps were added to a sweep of a closed square along an open spine
C23_Witness ==
    /\ call.op = "generateExtrusion"
    /\ IsMesh(result)
    /\ ~Loops(call.args[1].spine)
    /\ EffectiveLength(call.args[1].crossSection) = 4
    /\ call.args[1].beginCap /\ call.args[1].endCap
    /\ Len(result.polygons) = 2
    /\ result.triangles[Len(result.triangles)] # result.triangles[Len(result.triangles) - 2]

\* flags set on a closed spine: nothing is handed to the Triangulator
C23_WitnessClosed ==
    /\ call.op = "generateExtrusion"
    /\ IsMesh(result)
    /\ Loops(call.args[1].spine)
    /\ call.args[1].beginCap /\ call.args[1].endCap
    /\ result.polygons = <<>>

\* scale <<sx, sz>> was applied to the cross-section at spine point i of the
\* extrusion just generated, resp. orientation o was
ScaleApplied(i, scale) ==
    LET e == call.args[1]
        C == EffectiveCrossSectionSize(e)
    IN \A j \in 1 .. C :
          result.vertices[i * C + j].v1 = <<e.crossSection[j][1] * scale[1], 0, e.crossSection[j][2] * scale[2]>>

OrientationApplied(i, o) ==
    LET C == EffectiveCrossSectionSize(call.args[1])
    IN \A j \in 1 .. C : result.vertices[i * C + j].orientation = o

\* C24 as stated: with 0 or 1 scale entries the scale applied at every spine point
\* is (1, 1); with one entry per spine point, spine point i uses entry i; the
\* orientation applied is the identity when no orientation is given
C24_ScaleAndOrientation_asStated ==
    (call.op = "generateExtrusion" /\ IsMesh(result)) =>
        LET e == call.args[1]
        IN \A i \in 0 .. EffectiveSpineSize(e) - 1 :
              /\ Len(e.scale) \in {0, 1} => ScaleApplied(i, <<1, 1>>)
              /\ Len(e.scale) = Len(e.spine) => ScaleApplied(i, e.scale[i + 1])
              /\ Len(e.orientation) = 0 => OrientationApplied(i, <<0, <<0, 0, 1>>>>)

\* C24: with no scale entry the scale applied at every spine point is (1, 1); with
\* exactly one entry that entry is applied at every spine point; with one entry per
\* spine point, spine point i uses entry i; the orientation applied is the identity
\* (a rotation by 0) when no orientation is given
C24_ScaleAndOrientation ==
    (call.op = "generateExtrusion" /\ IsMesh(result)) =>
        LET e == call.args[1]
        IN \A i \in 0 .. EffectiveSpineSize(e) - 1 :
              /\ Len(e.scale) = 0 => ScaleApplied(i, <<1, 1>>)
              /\ Len(e.scale) = 1 => ScaleApplied(i, e.scale[1])
              /\ Len(e.scale) = Len(e.spine) => ScaleApplied(i, e.scale[i + 1])
              /\ Len(e.orientation) = 0 => OrientationApplied(i, <<0, <<0, 0, 1>>>>)

\* a single scale entry other than (1, 1) was applied along a bend without
\* orientations
C24_Witness ==
    /\ call.op = "generateExtrusion"
    /\ IsMesh(result)
    /\ Len(call.args[1].scale) = 1
    /\ call.args[1].scale[1] # <<1, 1>>
    /\ Len(call.args[1].orientation) = 0
    /\ EffectiveSpineSize(call.args[1]) = 3
    /\ ScaleApplied(2, call.args[1].scale[1])
    /\ OrientationApplied(2, <<0, <<0, 0, 1>>>>)

\* C29: generateExtrusion never reads a scale or orientation entry at an index >=
\* the length of the array, whatever the number of entries and of spine points
C29_ReadsInBounds ==
    (call.op = "generateExtrusion" /\ ~ExtrusionIsRejected(call.args[1])) =>
        /\ \A k \in ScaleEntriesRead(call.args[1]) : k < Len(call.args[1].scale)
        /\ \A k \in OrientationEntriesRead(call.args[1]) : k < Len(call.args[1].orientation)

\* what the claim holds for: at most one entry, or at least one per effective
\* spine point
C29_ReadsInBoundsWhenEnough ==
    (/\ call.op = "generateExtrusion"
     /\ ~ExtrusionIsRejected(call.args[1])
     /\ \A n \in {Len(call.args[1].scale), Len(call.args[1].orientation)} :
            n <= 1 \/ n >= EffectiveSpineSize(call.args[1])) =>
        /\ \A k \in ScaleEntriesRead(call.args[1]) : k < Len(call.args[1].scale)
        /\ \A k \in OrientationEntriesRead(call.args[1]) : k < Len(call.args[1].orientation)
        /\ result # Fault

\* the extrusion just generated has texture coordinates for at least one cap
HasCapTexture ==
    /\ call.op = "generateExtrusion"
    /\ IsMesh(result)
    /\ call.args[2]
    /\ \E k \in 1 .. Len(result.texCoords) : result.texCoords[k].form = "cap"

\* the least and the greatest coordinate c (1: first, 2: second) over the points of
\* the cross-section of the extrusion just generated
LeastCoordinate(c) ==
    Least({call.args[1].crossSection[k][c] : k \in 1 .. Len(call.args[1].crossSection)})

GreatestCoordinate(c) ==
    Greatest({call.args[1].crossSection[k][c] : k \in 1 .. Len(call.args[1].crossSection)})

\* C25: the cap texture coordinates are normalised with the true bounding box of the
\* cross-section, so for a cross-section with a non-zero extent in both directions
\* every cap texture coordinate lies in [0, 1]
C25_CapTextureExtents ==
    (/\ HasCapTexture
     /\ LeastCoordinate(1) < GreatestCoordinate(1)
     /\ LeastCoordinate(2) < GreatestCoordinate(2)) =>
        \A k \in 1 .. Len(result.texCoords) :
            result.texCoords[k].form = "cap" =>
                /\ result.texCoords[k].u[2] = GreatestCoordinate(1) - LeastCoordinate(1)
                /\ result.texCoords[k].v[2] = GreatestCoordinate(2) - LeastCoordinate(2)
                /\ 0 <= result.texCoords[k].u[1] /\ result.texCoords[k].u[1] <= result.texCoords[k].u[2]
                /\ 0 <= result.texCoords[k].v[1] /\ result.texCoords[k].v[1] <= result.texCoords[k].v[2]

\* what holds of the caps: the first texture coordinate is normalised with the true
\* extent of the first cross-section coordinate and lies in [0, 1]
C25_CapTextureFirstCoordinate ==
    (HasCapTexture /\ LeastCoordinate(1) < GreatestCoordinate(1)) =>
        \A k \in 1 .. Len(result.texCoords) :
            result.texCoords[k].form = "cap" =>
                /\ result.texCoords[k].u[2] = GreatestCoordinate(1) - LeastCoordinate(1)
                /\ 0 <= result.texCoords[k].u[1] /\ result.texCoords[k].u[1] <= result.texCoords[k].u[2]

\* the sphere or cylinder just generated has texture coordinates and a radius > 0
HasLongitudes ==
    /\ call.op \in {"generateSphere", "generateCylinder"}
    /\ IsMesh(result)
    /\ result.hasTexCoords
    /\ call.args[1] > 0

\* the triangles whose corners get a longitude coordinate: all of a sphere, the side
\* triangles of a cylinder (those whose corners are not all at one height)
LongitudeTriangles ==
    { k \in 1 .. Len(result.triangles) :
        \/ call.op = "generateSphere"
        \/ \E j \in 2 .. 3 :
              VertexY2(TrianglePoints(result, k)[j]) # VertexY2(TrianglePoints(result, k)[1]) }

\* the texture point assigned to corner j of triangle k, and the number of steps the
\* longitudes are counted in (the denominator of its first coordinate)
AssignedTexPoint(k, j) == result.texCoords[result.texCoordIndices[3 * (k - 1) + j] + 1]

LongitudeSteps == AssignedTexPoint(1, 1).s[2]

\* the normalized longitude of corner j of triangle k, in steps
NormalizedLongitude(k, j) == Longitude(TrianglePoints(result, k)[j], LongitudeSteps \div 4)

\* C26: in the sphere and cylinder-side texture builders, in a triangle with a vertex
\* of normalized longitude > 0.5 no vertex is assigned the longitude coordinate 0: a
\* vertex of normalized longitude 0 is assigned 1; in a triangle without such a
\* vertex it is assigned 0.  Every assigned longitude coordinate lies in [0, 1].
C26_SeamLongitudes ==
    HasLongitudes =>
        \A k \in LongitudeTriangles :
            LET over == \E j \in 1 .. 3 : 2 * NormalizedLongitude(k, j) > LongitudeSteps
            IN \A j \in 1 .. 3 :
                  /\ AssignedTexPoint(k, j).s[2] = LongitudeSteps
                  /\ AssignedTexPoint(k, j).s[1] \in 0 .. LongitudeSteps
                  /\ over => AssignedTexPoint(k, j).s[1] # 0
                  /\ NormalizedLongitude(k, j) = 0 =>
                        AssignedTexPoint(k, j).s[1] = IF over THEN LongitudeSteps ELSE 0

\* a cylinder whose side has a triangle across the seam (its vertex of longitude 0
\* got 1) and a triangle on the other side of it (its vertex of longitude 0 kept 0)
C26_Witness ==
    /\ HasLongitudes
    /\ call.op = "generateCylinder"
    /\ \E k \in LongitudeTriangles : \E j \in 1 .. 3 :
          NormalizedLongitude(k, j) = 0 /\ AssignedTexPoint(k, j).s[1] = LongitudeSteps
    /\ \E k \in LongitudeTriangles : \E j \in 1 .. 3 :
          NormalizedLongitude(k, j) = 0 /\ AssignedTexPoint(k, j).s[1] = 0

\* the triangles with the corners of t in the opposite order, from any first corner
Reversals(t) == { <<t[3], t[2], t[1]>>, <<t[2], t[1], t[3]>>, <<t[1], t[3], t[2]>> }

\* the corners two triangles have in common
SharedCorners(t, u) == {t[1], t[2], t[3]} \cap {u[1], u[2], u[3]}

\* what the generator returns for the grid of the call just made with ccw inverted
OtherWinding ==
    generateElevationGrid(this, [call.args[1] EXCEPT !.ccw = ~@], call.args[2])

\* C27: for a valid elevation grid the triangle list generated with ccw = false is,
\* cell by cell and triangle by triangle, the list generated with ccw = true with the
\* vertex order of each triangle reversed; both split each cell along the same
\* diagonal, and the vertex list is the same.
C27_WindingOfGrid ==
    (call.op = "generateElevationGrid" /\ IsMesh(result)) =>
        /\ IsMesh(OtherWinding)
        /\ OtherWinding.vertices = result.vertices
        /\ Len(OtherWinding.triangles) = Len(result.triangles)
        /\ \A k \in 1 .. Len(result.triangles) :
              OtherWinding.triangles[k] \in Reversals(result.triangles[k])
        /\ \A c \in 1 .. Len(result.triangles) \div 2 :
              /\ Cardinality(SharedCorners(result.triangles[2 * c - 1], result.triangles[2 * c])) = 2
              /\ SharedCorners(OtherWinding.triangles[2 * c - 1], OtherWinding.triangles[2 * c])
                   = SharedCorners(result.triangles[2 * c - 1], result.triangles[2 * c])

\* a grid with ccw = false and at least one cell was generated, and its first
\* triangle is not the one generated with ccw = true
C27_Witness ==
    /\ call.op = "generateElevationGrid"
    /\ IsMesh(result)
    /\ ~call.args[1].ccw
    /\ Len(result.triangles) >= 2
    /\ OtherWinding.triangles[1] # result.triangles[1]

\* generateExtrusionLineSet has just returned a line set
IsLineSet ==
    /\ call.op = "generateExtrusionLineSet"
    /\ result # Null

\* C28: when generateExtrusion returned a mesh and generateExtrusionLineSet returns
\* a line set over the vertices of that mesh, every line endpoint index is >= 0 and
\* < the number of vertices, for open and closed spines and cross-sections alike
C28_LineIndicesInBounds ==
    IsLineSet =>
        \A k \in 1 .. Len(result.lines) : \A c \in 1 .. 2 :
            0 <= result.lines[k][c] /\ result.lines[k][c] < Len(result.vertices)

\* what holds: the same for the line sets of open spines
C28_LineIndicesInBoundsOnOpenSpine ==
    (IsLineSet /\ ~Loops(call.args[1].spine)) =>
        \A k \in 1 .. Len(result.lines) : \A c \in 1 .. 2 :
            0 <= result.lines[k][c] /\ result.lines[k][c] < Len(result.vertices)

\* the writer has just written the geometry of an embedded mesh: one without uri,
\* or any mesh when all meshes are embedded
WroteEmbeddedMesh ==
    /\ call.op = "writeGeometry"
    /\ call.args[1] # Null
    /\ (call.args[2] = "" \/ call.args[3])

\* the type name of each kind of primitive descriptor
TypeNames ==
    [k \in {"BOX", "SPHERE", "CYLINDER", "CONE", "CAPSULE"} |->
        CASE k = "BOX" -> "Box" [] k = "SPHERE" -> "Sphere" [] k = "CYLINDER" -> "Cylinder"
          [] k = "CONE" -> "Cone" [] k = "CAPSULE" -> "Capsule"]

\* a mesh without primitive descriptor is written as a TriangleMesh only when it has
\* vertices and at least one triangle, and not written otherwise
FreeformIsWritten ==
    (WroteEmbeddedMesh /\ call.args[1].primitive[1] = "MESH") =>
        IF Len(call.args[1].vertices) > 0 /\ Len(call.args[1].triangles) >= 1
        THEN result # Null /\ result.type = "TriangleMesh"
        ELSE result = Null

\* C30: for an embedded mesh whose primitive descriptor is Box, Sphere, Cylinder,
\* Cone or Capsule the 'type' written names that primitive kind, distinct kinds
\* having distinct names; a mesh without primitive descriptor is written as a
\* TriangleMesh only when it has vertices and at least one triangle
C30_GeometryType ==
    /\ (WroteEmbeddedMesh /\ call.args[1].primitive[1] \in DOMAIN TypeNames) =>
          (result # Null /\ result.type = TypeNames[call.args[1].primitive[1]])
    /\ FreeformIsWritten

\* what holds: the same for every primitive kind but the capsule
C30_GeometryTypeButCapsule ==
    /\ (WroteEmbeddedMesh /\ call.args[1].primitive[1] \in DOMAIN TypeNames \ {"CAPSULE"}) =>
          (result # Null /\ result.type = TypeNames[call.args[1].primitive[1]])
    /\ FreeformIsWritten

====
